---------------------------- MODULE Spec2Model ----------------------------
(***************************************************************************)
(* Model of scapy/layers/tls/cert.py: certificate objects, the issuance    *)
(* relation (Cert.isIssuerCert / Cert.isSelfSigned), chain construction    *)
(* (Chain.__init__), chain verification (Chain.verifyChain), expiry        *)
(* (Cert.remainingDays) and revocation (Cert.isRevoked).                   *)
(*                                                                         *)
(* A certificate object is a record.  Its fields are the attributes that   *)
(* Cert.import_from_asn1pkt extracts, plus                                 *)
(*   oid     the identity of the Python object (Cert defines no __eq__, so *)
(*           list.remove, "in" and "is" all compare identities);           *)
(*   signer  the key pair that produced signatureValue: the provider's     *)
(*           verify accepts the signature under exactly that public key.   *)
(* Times are counted in whole days.                                        *)
(***************************************************************************)
EXTENDS Integers, Sequences, FiniteSets, TLC

VARIABLES
    pc,          \* position of the running call
    certList,    \* Chain.__init__: the pool argument (mutated in place)
    cert0,       \* Chain.__init__: the optional start certificate
    chain,       \* Chain.__init__: self, the list under construction
    certList0,   \* history: the pool as it was at entry
    appends,     \* history: number of appends made by the growth loop
    passes,      \* history: number of iterations of the growth loop
    lastPass,    \* history: what the last growth pass did
    vself,       \* Chain.verifyChain: self, the chain under test
    anchors,     \* Chain.verifyChain: the trust anchors
    untrusted,   \* Chain.verifyChain: the untrusted candidates
    aidx,        \* Chain.verifyChain: index of the anchor tried next
    result,      \* Chain.verifyChain: the value returned
    tried,       \* history: the chain built and the outcome for each anchor tried
    rcert,       \* Cert.isRevoked: self
    crl_list,    \* Cert.isRevoked: the CRLs
    ridx,        \* Cert.isRevoked: index of the CRL the loop is at
    rresult,     \* Cert.isRevoked: the value returned
    obj_path,    \* import: the argument, and what the collaborators make of it
    fileRead,    \* import history: f.read() was executed
    pemRun,      \* import history: split_pem / pem2der were run
    frmt,        \* import: obj.frmt
    attempts,    \* import history: the structural decodes attempted, in order
    objClass,    \* import: obj.__class__
    filled,      \* import: the field-extraction routine completed on obj
    extractFailed, \* import history: a field-extraction routine raised
    error,       \* import: the exception that left the call
    pem_input,   \* codec: the bytes handed to pem2der and to split_pem
    decoded,     \* codec: what pem2der(pem_input) returned or raised
    remaining,   \* split_pem: s, the bytes not yet consumed
    pieces,      \* split_pem: pem_strings, the list built
    der_given,   \* der2pem: der_string, the DER bytes
    label,       \* der2pem: obj, the label
    pem_made,    \* der2pem: pem_string, the string returned
    back,        \* round trip: pem2der(pem_made)
    backBytes,   \* round trip: pem2der(pem_made.encode())
    made,        \* round trip: _PKIObjMaker.__call__(pem_made)
    kobj,        \* keys: the PrivKey object k
    pobj,        \* keys: the PubKey object last constructed
    ctor,        \* keys history: the constructor path that made pobj
    ccert,       \* keys: the Cert object c
    ccert0,      \* keys history: c as it was at entry
    hgiven,      \* PrivKey.signTBSCert: the h argument
    signedCert,  \* PrivKey.signTBSCert: the X509_Cert returned
    verdict      \* PrivKey.verifyCert(signedCert): the value returned

chainVars == <<certList, cert0, chain, certList0, appends, passes, lastPass>>

verifyVars == <<vself, anchors, untrusted, aidx, result, tried>>

revokeVars == <<rcert, crl_list, ridx, rresult>>

importVars ==
    <<obj_path, fileRead, pemRun, frmt, attempts, objClass, filled,
      extractFailed, error>>

codecVars ==
    <<pem_input, decoded, remaining, pieces, der_given, label, pem_made, back,
      backBytes, made>>

keysVars ==
    <<kobj, pobj, ctor, ccert, ccert0, hgiven, signedCert, verdict>>

vars ==
    <<pc, chainVars, verifyVars, revokeVars, importVars, codecVars, keysVars>>

(* What each component leaves alone. *)
notChain ==
    <<verifyVars, revokeVars, importVars, codecVars, keysVars>>

notVerify ==
    <<chainVars, revokeVars, importVars, codecVars, keysVars>>

notRevoke ==
    <<chainVars, verifyVars, importVars, codecVars, keysVars>>

notImport ==
    <<chainVars, verifyVars, revokeVars, codecVars, keysVars>>

notCodec ==
    <<chainVars, verifyVars, revokeVars, importVars, keysVars>>

notKeys ==
    <<chainVars, verifyVars, revokeVars, importVars, codecVars>>

(* cert0=None: no start certificate; an authorityKeyID of None. *)
None == [oid |-> 0]

NoKeyID == "None"

----------------------------------------------------------------------------
(* Bounds of the model                                                     *)

(* Certificate objects taking part in one construction call: the pool      *)
(* members plus the start certificate.                                     *)
MaxCerts == 3

(* Certificate objects taking part in one verification call: the anchors,  *)
(* the chain under test and the untrusted candidates.                      *)
MaxVerifyCerts == 3

(* CRLs handed to one revocation check, and entries of one CRL. *)
MaxCRLs == 2

MaxRevoked == 1

Serials == {1, 2}

KeyIdentifiers == {"id1", "id2"}

(* The distinguished names and the key pairs, in a fixed order. *)
NameSeq == <<"CN=A", "CN=B">>

KeySeq == <<"k1", "k2">>

Names == {NameSeq[i] : i \in DOMAIN NameSeq}

KeyIds == {KeySeq[i] : i \in DOMAIN KeySeq}

(* The clock value time.localtime() returns during a call. *)
Now == 2

(* Lines of a text handed to pem2der and split_pem. *)
MaxLines == 4

(* Bytes of a DER string handed to der2pem: 48 bytes fill one line of 64    *)
(* base64 characters.                                                      *)
MaxDerLen == 49

----------------------------------------------------------------------------
(* Certificates                                                            *)

(* hash(self.issuer_str) / hash(self.subject_str): a value that is equal   *)
(* for equal strings; the names of the model hash to distinct values.      *)
Hash(s) == IF s = "CN=A" THEN 11 ELSE IF s = "CN=B" THEN 23 ELSE 37

issuer_hash(c) == Hash(c.issuer_str)

subject_hash(c) == Hash(c.subject_str)

(* PubKey.verifyCert: the provider verifies signatureValue over the        *)
(* to-be-signed body under this key.                                       *)
verifyCert(pubKey, cert) == cert.signer = pubKey

(* Mutant: the issuer test without the signature check. *)
isIssuerCert_HashOnly(self, other) ==
    issuer_hash(self) = subject_hash(other)

(* Cert.isIssuerCert(self, other): True if 'other' issued 'self'. *)
isIssuerCert(self, other) ==
    IF issuer_hash(self) # subject_hash(other)
    THEN FALSE
    ELSE verifyCert(other.pubKey, self)

(* Cert.isSelfSigned *)
isSelfSigned(self) ==
    IF issuer_hash(self) = subject_hash(self)
    THEN isIssuerCert(self, self)
    ELSE FALSE

(* Cert.remainingDays(now=None): (notAfter - now) / (24 * 3600); with the  *)
(* model's times in days the quotient is the difference itself.            *)
remainingDays(self, now) == self.notAfter - now

----------------------------------------------------------------------------
(* Python list helpers                                                     *)

(* A scan "for x in list: if test(x): ... break": the index of the first   *)
(* element whose test is true, given the tests' values; 0 when none is.    *)
FirstTrue(tests) ==
    IF \E i \in DOMAIN tests : tests[i]
    THEN CHOOSE i \in DOMAIN tests : tests[i] /\ \A j \in 1..(i - 1) : ~tests[j]
    ELSE 0

(* s with the element at index i deleted. *)
DelAt(s, i) == [k \in 1..(Len(s) - 1) |-> IF k < i THEN s[k] ELSE s[k + 1]]

(* list.remove(x): delete the first element equal to x. *)
ListRemove(s, x) == DelAt(s, FirstTrue([k \in DOMAIN s |-> s[k] = x]))

(* x in s *)
ListIn(x, s) == \E i \in DOMAIN s : s[i] = x

----------------------------------------------------------------------------
(* Chain.__init__                                                          *)

(* Mutant: the root found by the scan stays in the pool. *)
Seed_KeepRoot(pool, start) ==
    IF start # None
    THEN [chain |-> <<start>>, certList |-> pool]
    ELSE LET i == FirstTrue([k \in DOMAIN pool |-> isSelfSigned(pool[k])])
         IN  IF i = 0
             THEN [chain |-> <<>>, certList |-> pool]
             ELSE [chain |-> <<pool[i]>>, certList |-> pool]

(* Mutant: the scan keeps the last self-signed pool member, not the first. *)
Seed_LastRoot(pool, start) ==
    IF start # None
    THEN [chain |-> <<start>>, certList |-> pool]
    ELSE LET roots == {k \in DOMAIN pool : isSelfSigned(pool[k])}
         IN  IF roots = {}
             THEN [chain |-> <<>>, certList |-> pool]
             ELSE LET i == CHOOSE k \in roots : \A m \in roots : m <= k
                  IN  [chain |-> <<pool[i]>>,
                       certList |-> ListRemove(pool, pool[i])]

(* Seeding: cert0 when given, else the first self-signed pool member,      *)
(* which is removed from the pool.                                         *)
Seed(pool, start) ==
    IF start # None
    THEN [chain |-> <<start>>, certList |-> pool]
    ELSE LET i == FirstTrue([k \in DOMAIN pool |-> isSelfSigned(pool[k])])
         IN  IF i = 0
             THEN [chain |-> <<>>, certList |-> pool]
             ELSE [chain |-> <<pool[i]>>,
                   certList |-> ListRemove(pool, pool[i])]

(* Mutant: the appended certificate stays in the pool. *)
GrowPass_KeepInPool(ch, pool) ==
    LET i == FirstTrue([k \in DOMAIN pool |-> isIssuerCert(pool[k], ch[Len(ch)])])
    IN  IF i = 0
        THEN [chain |-> ch, certList |-> pool]
        ELSE [chain |-> Append(ch, pool[i]), certList |-> pool]

(* Mutant: the for loop keeps the last pool member issued by the tail. *)
GrowPass_LastMatch(ch, pool) ==
    LET hits == {k \in DOMAIN pool : isIssuerCert(pool[k], ch[Len(ch)])}
    IN  IF hits = {}
        THEN [chain |-> ch, certList |-> pool]
        ELSE LET i == CHOOSE k \in hits : \A m \in hits : m <= k
             IN  [chain |-> Append(ch, pool[i]),
                  certList |-> DelAt(pool, i)]

(* One iteration of "while certList": the for loop appends the first pool  *)
(* member issued by the tail and removes it, or appends nothing.           *)
GrowPass(ch, pool) ==
    LET i == FirstTrue([k \in DOMAIN pool |-> isIssuerCert(pool[k], ch[Len(ch)])])
    IN  IF i = 0
        THEN [chain |-> ch, certList |-> pool]
        ELSE [chain |-> Append(ch, pool[i]),
              certList |-> ListRemove(pool, pool[i])]

RECURSIVE GrowLoop(_, _)
(* The while loop run to its end. *)
GrowLoop(ch, pool) ==
    IF pool = <<>>
    THEN [chain |-> ch, certList |-> pool]
    ELSE LET r == GrowPass(ch, pool)
         IN  IF Len(r.chain) = Len(ch)
             THEN r
             ELSE GrowLoop(r.chain, r.certList)

(* Chain(certList, cert0) run to its end. *)
ChainInit(pool, start) ==
    LET s == Seed(pool, start)
    IN  IF Len(s.chain) > 0
        THEN GrowLoop(s.chain, s.certList)
        ELSE s

----------------------------------------------------------------------------
(* Chain.verifyChain                                                       *)

(* chain[1:] *)
AfterFirst(ch) == SubSeq(ch, 2, Len(ch))

(* Mutant: the test looks at the whole chain, anchor included. *)
ReliesOnSelf_WholeChain(self, ch) ==
    \E i \in DOMAIN self : ListIn(self[i], ch)

(* any(c in chain[1:] for c in self) *)
ReliesOnSelf(self, ch) ==
    \E i \in DOMAIN self : ListIn(self[i], AfterFirst(ch))

(* The loop variable c after                                               *)
(*     for c in chain: if c.remainingDays() < 0: break                     *)
(* the first expired member, or the last member when none is expired.      *)
DateLoopVar(ch, now) ==
    LET i == FirstTrue([k \in DOMAIN ch |-> remainingDays(ch[k], now) < 0])
    IN  IF i = 0 THEN ch[Len(ch)] ELSE ch[i]

(* "if c is chain[-1]": the loop variable is the object at the end. *)
ReachedEnd(ch, now) == DateLoopVar(ch, now) = ch[Len(ch)]

(* Mutant: one pool is built before the loop over the anchors, so what an  *)
(* earlier anchor's chain took is gone for the later anchors.              *)
VerifyPool_Shared(self, untr) ==
    LET Left(x) == \A k \in DOMAIN tried : ~ListIn(x, AfterFirst(tried[k].chain))
    IN  SelectSeq(self \o untr, Left)

(* Mutant: the untrusted candidates are left out of the pool. *)
VerifyPool_SelfOnly(self, untr) == self

(* The pool handed to the constructor: self + untrusted, a fresh list. *)
VerifyPool(self, untr) == self \o untr

(* One iteration of "for a in anchors": the chain built from the anchor    *)
(* and what the body of the loop does with it.                             *)
TryAnchor(self, untr, a, now) ==
    LET ch == ChainInit(VerifyPool(self, untr), a).chain
    IN  [chain |-> ch,
         outcome |->
            IF Len(ch) = 1 THEN "anchor only"
            ELSE IF ~ReliesOnSelf(self, ch) THEN "untrusted only"
            ELSE IF ~ReachedEnd(ch, now) THEN "expired"
            ELSE "return"]

----------------------------------------------------------------------------
(* Cert.isRevoked                                                          *)

(* self.serial in (x[0] for x in c.revoked_cert_serials) *)
SerialListed(self, c) ==
    \E i \in DOMAIN c.revoked_cert_serials :
        c.revoked_cert_serials[i][1] = self.serial

(* the "if" of the loop body: both carry a key identifier, and the same *)
SameKeyID(self, c) ==
    /\ self.authorityKeyID # NoKeyID
    /\ c.authorityKeyID # NoKeyID
    /\ self.authorityKeyID = c.authorityKeyID

(* the "elif" of the loop body: self.issuer == c.issuer *)
SameIssuer(self, c) == self.issuer_str = c.issuer_str

(* Mutant: the loop returns only at a CRL that lists the serial. *)
CrlDecides_OnlyIfListed(self, c) ==
    (SameKeyID(self, c) \/ SameIssuer(self, c)) /\ SerialListed(self, c)

(* The loop body returns at CRL c. *)
CrlDecides(self, c) == SameKeyID(self, c) \/ SameIssuer(self, c)

----------------------------------------------------------------------------
(* Python strings and the base64 module                                    *)
(*                                                                         *)
(* A text is a sequence of one-character strings, a byte string of DER a   *)
(* sequence of numbers 0..255.  Indices are Python's: they start at 0.     *)

(* sub occurs in s at index i *)
Occurs(s, sub, i) ==
    /\ i >= 0
    /\ i + Len(sub) <= Len(s)
    /\ SubSeq(s, i + 1, i + Len(sub)) = sub

(* An index argument as find, rfind and slicing read it: counted from the  *)
(* end when negative, then clamped to 0 .. len(s).                         *)
ClampIndex(s, i) ==
    LET j == IF i < 0 THEN i + Len(s) ELSE i
    IN  IF j < 0 THEN 0 ELSE IF j > Len(s) THEN Len(s) ELSE j

(* s.find(sub, start): the lowest index at or after start, or -1 *)
Find(s, sub, start) ==
    LET from == ClampIndex(s, start)
        at == {i \in from..Len(s) : Occurs(s, sub, i)}
    IN  IF at = {} THEN -1 ELSE CHOOSE i \in at : \A j \in at : i <= j

(* s.rfind(sub, start, end): the highest index of an occurrence inside     *)
(* s[start:end], or -1                                                     *)
RFind(s, sub, start, end) ==
    LET from == ClampIndex(s, start)
        to == ClampIndex(s, end)
        at == {i \in from..to : Occurs(s, sub, i) /\ i + Len(sub) <= to}
    IN  IF at = {} THEN -1 ELSE CHOOSE i \in at : \A j \in at : j <= i

(* s[a:b] *)
Slice(s, a, b) == SubSeq(s, ClampIndex(s, a) + 1, ClampIndex(s, b))

(* s.replace(ch, b"") for a single character ch *)
Without(s, ch) == SelectSeq(s, LAMBDA c : c # ch)

Base64Alphabet ==
    <<"A", "B", "C", "D", "E", "F", "G", "H", "I", "J", "K", "L", "M",
      "N", "O", "P", "Q", "R", "S", "T", "U", "V", "W", "X", "Y", "Z",
      "a", "b", "c", "d", "e", "f", "g", "h", "i", "j", "k", "l", "m",
      "n", "o", "p", "q", "r", "s", "t", "u", "v", "w", "x", "y", "z",
      "0", "1", "2", "3", "4", "5", "6", "7", "8", "9", "+", "/">>

(* The value of a character in the base64 alphabet; 64 for any other. *)
B64Value(ch) ==
    IF \E v \in 0..63 : Base64Alphabet[v + 1] = ch
    THEN CHOOSE v \in 0..63 : Base64Alphabet[v + 1] = ch
    ELSE 64

RECURSIVE b64encode(_)
(* base64.b64encode: three bytes make four characters, the last group is   *)
(* padded with "=".                                                        *)
b64encode(d) ==
    IF Len(d) = 0
    THEN <<>>
    ELSE LET b1 == d[1]
             b2 == IF Len(d) >= 2 THEN d[2] ELSE 0
             b3 == IF Len(d) >= 3 THEN d[3] ELSE 0
             c1 == Base64Alphabet[(b1 \div 4) + 1]
             c2 == Base64Alphabet[((b1 % 4) * 16 + (b2 \div 16)) + 1]
             c3 == Base64Alphabet[((b2 % 16) * 4 + (b3 \div 64)) + 1]
             c4 == Base64Alphabet[(b3 % 64) + 1]
         IN  IF Len(d) = 1 THEN <<c1, c2, "=", "=">>
             ELSE IF Len(d) = 2 THEN <<c1, c2, c3, "=">>
             ELSE <<c1, c2, c3, c4>> \o b64encode(SubSeq(d, 4, Len(d)))

RECURSIVE a2b_base64(_, _, _, _, _, _)
(* base64.b64decode without validation: characters outside the alphabet    *)
(* are skipped, a completed padding ends the decoding, an incomplete last  *)
(* group raises binascii.Error.  i is the index read next, quad_pos the    *)
(* position in the group of four, leftchar the bits carried over, pads the *)
(* padding characters seen in a row, out the bytes produced so far.        *)
a2b_base64(data, i, quad_pos, leftchar, pads, out) ==
    IF i > Len(data)
    THEN IF quad_pos # 0
         THEN [raised |-> "binascii.Error", der |-> <<>>]
         ELSE [raised |-> "no", der |-> out]
    ELSE IF data[i] = "="
    THEN IF quad_pos >= 2 /\ quad_pos + pads + 1 >= 4
         THEN [raised |-> "no", der |-> out]
         ELSE a2b_base64(data, i + 1, quad_pos, leftchar,
                         IF quad_pos >= 2 THEN pads + 1 ELSE pads, out)
    ELSE LET v == B64Value(data[i]) IN
         IF v >= 64
         THEN a2b_base64(data, i + 1, quad_pos, leftchar, pads, out)
         ELSE CASE quad_pos = 0 ->
                     a2b_base64(data, i + 1, 1, v, 0, out)
                [] quad_pos = 1 ->
                     a2b_base64(data, i + 1, 2, v % 16, 0,
                                Append(out, leftchar * 4 + (v \div 16)))
                [] quad_pos = 2 ->
                     a2b_base64(data, i + 1, 3, v % 4, 0,
                                Append(out, leftchar * 16 + (v \div 4)))
                [] quad_pos = 3 ->
                     a2b_base64(data, i + 1, 0, 0, 0,
                                Append(out, leftchar * 64 + v))

b64decode(data) == a2b_base64(data, 1, 0, 0, 0, <<>>)

----------------------------------------------------------------------------
(* der2pem, pem2der, split_pem                                             *)

Dashes == <<"-", "-", "-", "-", "-">>

BeginMarker == Dashes \o <<"B", "E", "G", "I", "N">>

EndMarker == Dashes \o <<"E", "N", "D">>

RECURSIVE JoinChunks(_)
(* '\n'.join of the chunks of 64 characters *)
JoinChunks(b) ==
    IF Len(b) <= 64
    THEN b
    ELSE SubSeq(b, 1, 64) \o <<"\n">> \o JoinChunks(SubSeq(b, 65, Len(b)))

(* der2pem(der_string, obj): a str *)
der2pem(der_string, obj) ==
    [type |-> "str",
     data |-> BeginMarker \o <<" ">> \o obj \o Dashes \o <<"\n">>
              \o JoinChunks(b64encode(der_string))
              \o <<"\n">> \o EndMarker \o <<" ">> \o obj \o Dashes \o <<"\n">>]

(* str.encode() / bytes_encode(): the same characters as bytes *)
bytes_encode(x) == [type |-> "bytes", data |-> x.data]

(* The body of pem2der on the characters of a bytes argument.  The result  *)
(* of base64_string.replace(b"\n", b"") is dropped by the code, so the     *)
(* slice goes to b64decode as it is.                                       *)
pem2der_bytes(given) ==
    LET pem_string == Without(given, "\r")
        first_idx == Find(pem_string, Dashes \o <<"\n">>, 0) + 6
    IN  IF Find(pem_string, BeginMarker, first_idx) # -1
        THEN [raised |-> "Exception", der |-> <<>>]
        ELSE LET last_idx ==
                     RFind(pem_string, Dashes, 0,
                           RFind(pem_string, Dashes, 0, Len(pem_string)))
                 base64_string == Slice(pem_string, first_idx, last_idx)
             IN  b64decode(base64_string)

(* pem2der(pem_string): the bytes methods called with bytes arguments      *)
(* raise TypeError on a str.                                               *)
pem2der(pem_string) ==
    IF pem_string.type # "bytes"
    THEN [raised |-> "TypeError", der |-> <<>>]
    ELSE pem2der_bytes(pem_string.data)

(* One iteration of the while loop of split_pem on the characters s. *)
SplitStep(s) ==
    IF s = <<>>
    THEN [does |-> "end", piece |-> <<>>, rest |-> s]
    ELSE LET start_idx == Find(s, BeginMarker, 0) IN
         IF start_idx = -1
         THEN [does |-> "break", piece |-> <<>>, rest |-> s]
         ELSE LET end_idx == Find(s, EndMarker, 0) IN
              IF end_idx = -1
              THEN [does |-> "raise", piece |-> <<>>, rest |-> s]
              ELSE LET nl == Find(s, <<"\n">>, end_idx) + 1
                       stop == IF nl = 0 THEN Len(s) ELSE nl
                   IN  [does |-> "append",
                        piece |-> Slice(s, start_idx, stop),
                        rest |-> Slice(s, stop, Len(s))]

RECURSIVE SplitLoop(_, _)
(* The while loop of split_pem run to its end. *)
SplitLoop(s, pem_strings) ==
    LET step == SplitStep(s) IN
    IF step.does = "append"
    THEN SplitLoop(step.rest, Append(pem_strings, step.piece))
    ELSE IF step.does = "raise"
    THEN [raised |-> "Exception", pem_strings |-> <<>>]
    ELSE [raised |-> "no", pem_strings |-> pem_strings]

(* split_pem(s) *)
split_pem(s) ==
    IF s.type # "bytes"
    THEN [raised |-> "TypeError", pem_strings |-> <<>>]
    ELSE SplitLoop(s.data, <<>>)

RECURSIVE JoinDer(_)
(* b''.join(map(pem2der, der_list)) *)
JoinDer(der_list) ==
    IF der_list = <<>>
    THEN [raised |-> "no", der |-> <<>>]
    ELSE LET head == pem2der_bytes(der_list[1])
             tail == JoinDer(Tail(der_list))
         IN  IF head.raised # "no" THEN head
             ELSE IF tail.raised # "no" THEN tail
             ELSE [raised |-> "no", der |-> head.der \o tail.der]

(* _PKIObjMaker.__call__ on data that is not the path of a file: the       *)
(* frmt and _der of the object made, or the exception raised.              *)
PKIObj(obj_path_) ==
    LET raw_ == bytes_encode(obj_path_) IN
    IF Find(raw_.data, BeginMarker, 0) # -1
    THEN LET der_list == split_pem(raw_) IN
         IF der_list.raised # "no"
         THEN [raised |-> "Exception", frmt |-> "PEM", der |-> <<>>]
         ELSE LET der == JoinDer(der_list.pem_strings) IN
              IF der.raised # "no"
              THEN [raised |-> "Exception", frmt |-> "PEM", der |-> <<>>]
              ELSE [raised |-> "no", frmt |-> "PEM", der |-> der.der]
    ELSE [raised |-> "no", frmt |-> "DER", der |-> raw_.data]

----------------------------------------------------------------------------
(* _PKIObjMaker and the factories built on it                              *)

MAX_KEY_SIZE == 50 * 1024

MAX_CERT_SIZE == 50 * 1024

MAX_CRL_SIZE == 10 * 1024 * 1024

(* The classes whose metaclass imports data. *)
Categories == {"PubKey", "PrivKey", "Cert", "CRL"}

(* Mutant: every factory hands over the limit of the keys. *)
obj_max_size_KeyLimit(cat) == MAX_KEY_SIZE

(* The obj_max_size each factory hands to _PKIObjMaker.__call__. *)
obj_max_size(cat) ==
    CASE cat = "PubKey" -> MAX_KEY_SIZE
      [] cat = "PrivKey" -> MAX_KEY_SIZE
      [] cat = "Cert" -> MAX_CERT_SIZE
      [] cat = "CRL" -> MAX_CRL_SIZE

(* The structural decodes each factory attempts, in the order of its       *)
(* nested try blocks.                                                      *)
Candidates(cat) ==
    CASE cat = "PubKey" -> <<"X509_SubjectPublicKeyInfo", "RSAPublicKey">>
      [] cat = "PrivKey" -> <<"RSAPrivateKey_OpenSSL", "ECDSAPrivateKey_OpenSSL",
                              "RSAPrivateKey", "ECDSAPrivateKey",
                              "EdDSAPrivateKey">>
      [] cat = "Cert" -> <<"X509_Cert">>
      [] cat = "CRL" -> <<"X509_CRL">>

(* The types spki.subjectPublicKey can have; the factory knows the first   *)
(* three.                                                                  *)
SubForms == {"RSAPublicKey", "ECDSAPublicKey", "EdDSAPublicKey", "other"}

(* The try block of candidate cand gets as far as assigning the class: the *)
(* decoder accepts the bytes and, under X509_SubjectPublicKeyInfo, one of  *)
(* the isinstance tests holds (the bare "raise" of the else branch is      *)
(* caught like a decoding error).                                          *)
Decodes(in, cand) ==
    /\ cand \in in.forms
    /\ cand = "X509_SubjectPublicKeyInfo" => in.sub # "other"

(* The class the try block of candidate cand assigns to obj.__class__. *)
ClassOf(cand, sub) ==
    CASE cand = "X509_SubjectPublicKeyInfo" ->
            (CASE sub = "RSAPublicKey" -> "PubKeyRSA"
               [] sub = "ECDSAPublicKey" -> "PubKeyECDSA"
               [] sub = "EdDSAPublicKey" -> "PubKeyEdDSA")
      [] cand = "RSAPublicKey" -> "PubKeyRSA"
      [] cand = "RSAPrivateKey_OpenSSL" -> "PrivKeyRSA"
      [] cand = "ECDSAPrivateKey_OpenSSL" -> "PrivKeyECDSA"
      [] cand = "RSAPrivateKey" -> "PrivKeyRSA"
      [] cand = "ECDSAPrivateKey" -> "PrivKeyECDSA"
      [] cand = "EdDSAPrivateKey" -> "PrivKeyEdDSA"
      [] cand = "X509_Cert" -> "Cert"
      [] cand = "X509_CRL" -> "CRL"

(* The message of the exception a factory raises when it gives up. *)
UnableToImport(cat) ==
    CASE cat = "PubKey" -> "Unable to import public key"
      [] cat = "PrivKey" -> "Unable to import private key"
      [] cat = "Cert" -> "Unable to import certificate"
      [] cat = "CRL" -> "Unable to import CRL"

----------------------------------------------------------------------------
(* Keys, signatures and certificates as the signing methods see them       *)

(* A provider key handle: the algorithm of the key object the provider     *)
(* returned, the key pair it belongs to, and its half.  The default curve  *)
(* of the EdDSA classes, x25519.X25519PrivateKey, is a key-agreement key:  *)
(* it has neither sign nor verify.                                         *)
HandleAlgs == {"RSA", "ECDSA", "EdDSA", "X25519"}

PrivateHandle(alg, id) == [alg |-> alg, id |-> id, half |-> "private"]

(* key.public_key() *)
public_key(handle) == [handle EXCEPT !.half = "public"]

PublicHandles == {public_key(PrivateHandle(a, i)) : a \in HandleAlgs, i \in KeyIds}

PubKeyClasses == {"PubKey", "PubKeyRSA", "PubKeyECDSA", "PubKeyEdDSA"}

PrivKeyClasses == {"PrivKey", "PrivKeyRSA", "PrivKeyECDSA", "PrivKeyEdDSA"}

NoHandle == [alg |-> "none", id |-> "none", half |-> "none"]

NoPubKey == [cls |-> "none", pubkey |-> NoHandle]

NoPrivKey == [cls |-> "none", key |-> NoHandle, pubkey |-> NoPubKey]

(* The DER bytes of a key, by what the structured decoder and the provider *)
(* read out of them: the structure, the algorithm and the key pair.        *)
KeyDer(form, handle) == [form |-> form, alg |-> handle.alg, id |-> handle.id]

(* PubKey.der: self.pubkey.public_bytes(DER, SubjectPublicKeyInfo) *)
PubKey_der(self) == KeyDer("SubjectPublicKeyInfo", self.pubkey)

(* The algorithm of the key fill_and_store() of a class generates. *)
GeneratedAlg(cls) ==
    CASE cls \in {"PubKeyRSA", "PrivKeyRSA"} -> "RSA"
      [] cls \in {"PubKeyECDSA", "PrivKeyECDSA"} -> "ECDSA"
      [] cls \in {"PubKeyEdDSA", "PrivKeyEdDSA"} -> "X25519"

(* _PubKeyFactory.__call__(cls, cryptography_obj=...): the class asked for *)
(* around the handle given.                                                *)
PubKeyOfCryptographyObj(cls, cryptography_obj) ==
    [cls |-> cls, pubkey |-> cryptography_obj]

(* _PubKeyFactory.__call__(cls): a key is generated; PubKey() is an RSA    *)
(* key.  id is the key pair the provider comes up with.                    *)
PubKeyGenerated(cls, id) ==
    LET real == IF cls = "PubKey" THEN "PubKeyRSA" ELSE cls
    IN  [cls |-> real,
         pubkey |-> public_key(PrivateHandle(GeneratedAlg(real), id))]

(* _PubKeyFactory.__call__(cls, (e, m, mLen)): an RSA key whatever cls is. *)
(* id is the key pair the numbers belong to.                               *)
PubKeyOfTuple(cls, id) ==
    [cls |-> "PubKeyRSA", pubkey |-> public_key(PrivateHandle("RSA", id))]

(* _PubKeyFactory.__call__(cls, key_path) on DER bytes: the class follows  *)
(* the type of spki.subjectPublicKey, the handle is what the provider      *)
(* loads; bytes that are a bare RSAPublicKey are a PubKeyRSA.              *)
PubKeyOfDer(der) ==
    LET handle == public_key(PrivateHandle(der.alg, der.id))
    IN  CASE der.form = "SubjectPublicKeyInfo" /\ der.alg = "RSA" ->
               [raised |-> FALSE,
                obj |-> [cls |-> "PubKeyRSA", pubkey |-> handle]]
          [] der.form = "SubjectPublicKeyInfo" /\ der.alg = "ECDSA" ->
               [raised |-> FALSE,
                obj |-> [cls |-> "PubKeyECDSA", pubkey |-> handle]]
          [] der.form = "SubjectPublicKeyInfo" /\ der.alg = "EdDSA" ->
               [raised |-> FALSE,
                obj |-> [cls |-> "PubKeyEdDSA", pubkey |-> handle]]
          [] der.form = "RSAPublicKey" /\ der.alg = "RSA" ->
               [raised |-> FALSE,
                obj |-> [cls |-> "PubKeyRSA", pubkey |-> handle]]
          [] OTHER -> [raised |-> TRUE, obj |-> NoPubKey]

(* PrivKeyRSA.fill_and_store, PrivKeyECDSA.fill_and_store and              *)
(* PrivKeyEdDSA.fill_and_store, import_from_asn1pkt of the three classes:  *)
(* self.key and the public key object derived from it.                     *)
PrivKeyAround(cls, key) ==
    CASE cls = "PrivKeyRSA" ->
           [cls |-> cls, key |-> key,
            pubkey |-> PubKeyOfTuple("PubKeyRSA", key.id)]
      [] cls = "PrivKeyECDSA" ->
           [cls |-> cls, key |-> key,
            pubkey |-> PubKeyOfCryptographyObj("PubKeyECDSA", public_key(key))]
      [] cls = "PrivKeyEdDSA" ->
           [cls |-> cls, key |-> key,
            pubkey |-> PubKeyOfCryptographyObj("PubKeyECDSA", public_key(key))]

(* _PrivKeyFactory.__call__(cls): a key is generated; PrivKey() is an      *)
(* ECDSA key.                                                              *)
PrivKeyGenerated(cls, id) ==
    LET real == IF cls = "PrivKey" THEN "PrivKeyECDSA" ELSE cls
    IN  PrivKeyAround(real, PrivateHandle(GeneratedAlg(real), id))

(* _PrivKeyFactory.__call__(cls, key_path) on the DER bytes of a private   *)
(* key: the class follows the structure decoded, the handle is what the    *)
(* provider loads.                                                         *)
PrivKeyOfDer(der) ==
    PrivKeyAround(CASE der.alg = "RSA" -> "PrivKeyRSA"
                    [] der.alg = "ECDSA" -> "PrivKeyECDSA"
                    [] der.alg = "EdDSA" -> "PrivKeyEdDSA",
                  PrivateHandle(der.alg, der.id))

(* A signature value: the key pair and algorithm that made it, the bytes   *)
(* signed and the hash they were signed with (EdDSA takes none).           *)
NoDer == [form |-> "none", alg |-> "none", id |-> "none"]

NoTbs ==
    [signature |-> "none", subjectPublicKeyInfo |-> NoDer, issuer |-> "none",
     subject |-> "none"]

NoSig == [id |-> "none", alg |-> "none", data |-> NoTbs, h |-> "none"]

NoX509 ==
    [tbsCertificate |-> NoTbs, signatureAlgorithm |-> "none",
     signatureValue |-> NoSig]

(* PrivKeyRSA.sign, PrivKeyECDSA.sign, PrivKeyEdDSA.sign *)
PrivKey_sign(self, data, h) ==
    CASE self.cls = "PrivKeyRSA" /\ self.key.alg = "RSA" ->
           [raised |-> FALSE,
            sig |-> [id |-> self.key.id, alg |-> "RSA", data |-> data,
                     h |-> h]]
      [] self.cls = "PrivKeyECDSA" /\ self.key.alg = "ECDSA" ->
           [raised |-> FALSE,
            sig |-> [id |-> self.key.id, alg |-> "ECDSA", data |-> data,
                     h |-> h]]
      [] self.cls = "PrivKeyEdDSA" /\ self.key.alg = "EdDSA" ->
           [raised |-> FALSE,
            sig |-> [id |-> self.key.id, alg |-> "EdDSA", data |-> data,
                     h |-> "none"]]
      [] OTHER -> [raised |-> TRUE, sig |-> NoSig]

(* PubKeyRSA.verify, PubKeyECDSA.verify, PubKeyEdDSA.verify: "True",       *)
(* "False" on InvalidSignature, "raised" when the handle has no verify     *)
(* method or does not take the arguments the class passes.                 *)
PubKey_verify(self, msg, sig, h) ==
    CASE self.cls = "PubKeyRSA" /\ self.pubkey.alg = "RSA" ->
           IF sig = [id |-> self.pubkey.id, alg |-> "RSA", data |-> msg,
                     h |-> h]
           THEN "True" ELSE "False"
      [] self.cls = "PubKeyECDSA" /\ self.pubkey.alg = "ECDSA" ->
           IF sig = [id |-> self.pubkey.id, alg |-> "ECDSA", data |-> msg,
                     h |-> h]
           THEN "True" ELSE "False"
      [] self.cls = "PubKeyEdDSA" /\ self.pubkey.alg = "EdDSA" ->
           IF sig = [id |-> self.pubkey.id, alg |-> "EdDSA", data |-> msg,
                     h |-> "none"]
           THEN "True" ELSE "False"
      [] OTHER -> "raised"

(* PrivKeyRSA.verify, PrivKeyECDSA.verify, PrivKeyEdDSA.verify *)
PrivKey_verify(self, msg, sig, h) == PubKey_verify(self.pubkey, msg, sig, h)

(* The signature algorithms a certificate body declares, and               *)
(* hash_by_oid[sigAlg.algorithm.val].                                      *)
SigAlgs ==
    {"sha1-with-rsa-signature", "sha256WithRSAEncryption", "ecdsa-with-SHA384"}

hash_by_oid(sigAlg) ==
    CASE sigAlg = "sha1-with-rsa-signature" -> "sha1"
      [] sigAlg = "sha256WithRSAEncryption" -> "sha256"
      [] sigAlg = "ecdsa-with-SHA384" -> "sha384"

HashNames == {hash_by_oid(a) : a \in SigAlgs}

(* The default of the parameter h of PrivKey.signTBSCert. *)
DefaultH == "sha256"

(* PrivKey.signTBSCert(self, tbsCert, h) *)
signTBSCert(self, tbsCert, h) ==
    LET sigAlg == tbsCert.signature
        hUsed  == IF h # "None" THEN h ELSE hash_by_oid(sigAlg)
        sigVal == PrivKey_sign(self, tbsCert, hUsed)
    IN  [raised |-> sigVal.raised,
         c |-> [tbsCertificate |-> tbsCert,
                signatureAlgorithm |-> sigAlg,
                signatureValue |-> sigVal.sig]]

(* PrivKey.resignCert *)
resignCert(self, cert) == signTBSCert(self, cert.tbsCertificate, "None")

(* PrivKey.verifyCert *)
PrivKey_verifyCert(self, cert) ==
    LET tbsCert == cert.tbsCertificate
        h       == hash_by_oid(tbsCert.signature)
    IN  PrivKey_verify(self, tbsCert, cert.signatureValue, h)

(* PubKey.verifyCert, with the three outcomes of verify *)
PubKey_verifyCert(self, cert) ==
    LET tbsCert == cert.tbsCertificate
        h       == hash_by_oid(tbsCert.signature)
    IN  PubKey_verify(self, tbsCert, cert.signatureValue, h)

(* Cert.import_from_asn1pkt(self, cert): the attributes are assigned in    *)
(* order, so a PubKey() that raises leaves pubKey and signatureValue as    *)
(* they were.                                                              *)
import_from_asn1pkt(self, cert) ==
    LET tbsCert == cert.tbsCertificate
        pubKey  == PubKeyOfDer(tbsCert.subjectPublicKeyInfo)
        named   == [self EXCEPT !.x509Cert = cert,
                                !.tbsCertificate = tbsCert,
                                !.sigAlg = tbsCert.signature,
                                !.issuer_str = tbsCert.issuer,
                                !.issuer_hash = Hash(tbsCert.issuer),
                                !.subject_str = tbsCert.subject,
                                !.subject_hash = Hash(tbsCert.subject)]
    IN  IF pubKey.raised
        THEN [raised |-> TRUE, obj |-> named]
        ELSE [raised |-> FALSE,
              obj |-> [named EXCEPT !.pubKey = pubKey.obj,
                                    !.signatureValue = cert.signatureValue]]

(* A Cert object before import_from_asn1pkt has run on it. *)
BlankCert ==
    [x509Cert |-> NoX509, tbsCertificate |-> NoTbs, sigAlg |-> "none",
     issuer_str |-> "none", issuer_hash |-> 0, subject_str |-> "none",
     subject_hash |-> 0, pubKey |-> NoPubKey, signatureValue |-> NoSig]

(* Cert.setSubjectPublicKeyFromPrivateKey(self, key) for a PubKey or a     *)
(* PrivKey: self.tbsCertificate is the body of self.x509Cert, changed in   *)
(* place.                                                                  *)
setSubjectPublicKeyFromPrivateKey(self, key) ==
    LET pubkey  == IF key.cls \in PrivKeyClasses THEN key.pubkey ELSE key
        tbsCert == [self.tbsCertificate EXCEPT
                        !.subjectPublicKeyInfo = PubKey_der(pubkey)]
    IN  [self EXCEPT !.tbsCertificate = tbsCert,
                     !.x509Cert.tbsCertificate = tbsCert]

(* Cert.resignWith(self, key) *)
resignWith(self, key) ==
    LET resigned == resignCert(key, self)
    IN  IF resigned.raised
        THEN [raised |-> TRUE, obj |-> self]
        ELSE import_from_asn1pkt(self, resigned.c)

(* Cert.isIssuerCert and Cert.isSelfSigned, with the three outcomes of     *)
(* verify.                                                                 *)
Cert_isIssuerCert(self, other) ==
    IF self.issuer_hash # other.subject_hash
    THEN "False"
    ELSE PubKey_verifyCert(other.pubKey, self)

Cert_isSelfSigned(self) ==
    IF self.issuer_hash = self.subject_hash
    THEN Cert_isIssuerCert(self, self)
    ELSE "False"

----------------------------------------------------------------------------
(* Input domains                                                           *)

(* Certificate objects of the verification runs: every combination of     *)
(* subject, issuer, key and signing key, in up to two object copies, each  *)
(* either expired since a day or expiring at this very moment.             *)
VerifyCerts ==
    [oid : {1, 2}, subject_str : Names, issuer_str : Names,
     pubKey : KeyIds, signer : KeyIds,
     notAfter : {Now - 1, Now}, serial : {1}, authorityKeyID : {NoKeyID}]

(* The certificate checked for revocation: serials and issuer names are    *)
(* interchangeable, so it has serial 1 and issuer CN=A.                    *)
RevokeCerts ==
    [oid : {1}, subject_str : {"CN=B"}, issuer_str : {"CN=A"},
     pubKey : {"k1"}, signer : {"k2"},
     notAfter : {Now}, serial : {1},
     authorityKeyID : {NoKeyID} \cup KeyIdentifiers]

SeqsUpTo(S, n) == UNION {[1..k -> S] : k \in 0..n}

(* CRL objects: the attributes CRL.import_from_asn1pkt extracts that the   *)
(* revocation check reads; an entry is (serialNumber, revocationDate).     *)
CRLs ==
    [issuer_str : Names,
     authorityKeyID : {NoKeyID} \cup KeyIdentifiers,
     revoked_cert_serials : SeqsUpTo(Serials \X {"250101000000"}, MaxRevoked)]

(* The inputs of a call are lists of certificate objects.  They are        *)
(* enumerated by number: the contents of a certificate with one of nExp    *)
(* expiry days are numbered 0 .. NContents(nExp) - 1, digit by digit.      *)
NContents(nExp) ==
    Len(NameSeq) * Len(KeySeq) * Len(NameSeq) * Len(KeySeq) * nExp

CertNo(k, nExp) ==
    LET nN == Len(NameSeq)
        nK == Len(KeySeq)
    IN  [oid |-> 1,
         subject_str |-> NameSeq[(k % nN) + 1],
         pubKey |-> KeySeq[((k \div nN) % nK) + 1],
         issuer_str |-> NameSeq[((k \div (nN * nK)) % nN) + 1],
         signer |-> KeySeq[((k \div (nN * nK * nN)) % nK) + 1],
         notAfter |-> Now - ((k \div (nN * nK * nN * nK)) % nExp),
         serial |-> 1,
         authorityKeyID |-> NoKeyID]

(* A list of n objects is a function f on 1..n: f[i] below NContents is    *)
(* the object with oid 1 and that content, and f[i] = NContents + j - 1 is *)
(* the second object (oid 2) with the content of the earlier position j.   *)
(* Identities, names and keys are interchangeable, so the first object is  *)
(* named CN=A and holds k1, and an oid 2 object appears only after the     *)
(* oid 1 object of the same content.                                       *)
ValidCodes(f, nExp) ==
    LET nU == NContents(nExp) IN
    \A i \in DOMAIN f :
        /\ i = 1 => (f[i] < nU /\ f[i] % (Len(NameSeq) * Len(KeySeq)) = 0)
        /\ f[i] >= nU => (f[i] - nU + 1 < i /\ f[f[i] - nU + 1] < nU)

ObjsOfCodes(f, nExp) ==
    LET nU == NContents(nExp) IN
    [i \in DOMAIN f |->
        IF f[i] < nU
        THEN CertNo(f[i], nExp)
        ELSE [CertNo(f[f[i] - nU + 1], nExp) EXCEPT !.oid = 2]]

(* The codes of the lists of exactly n objects. *)
ObjCodes(n, nExp) ==
    {f \in [1..n -> 0..(NContents(nExp) + n - 2)] : ValidCodes(f, nExp)}

(* The files an import can be pointed at: sizes around the limit of the    *)
(* category and a 51 KiB file; raw bytes are not a file.                   *)
FileSizes(cat) ==
    {0, obj_max_size(cat) - 1, obj_max_size(cat), obj_max_size(cat) + 1,
     51 * 1024}

Files(cat) ==
    {[isfile |-> FALSE, size |-> 0, readable |-> TRUE]}
    \cup [isfile : {TRUE}, size : FileSizes(cat), readable : BOOLEAN]

(* What the structured decoder and the provider make of the DER bytes:     *)
(* the candidate structures the bytes decode under, the type of the        *)
(* wrapped key of a SubjectPublicKeyInfo, and how the field extraction on  *)
(* the first decoded structure ends (extract) and, for a public key, on    *)
(* the bare RSAPublicKey tried after it (extractBare).                     *)
Extractions(cat) ==
    IF cat = "PrivKey" THEN {"ok", "ImportError", "error"} ELSE {"ok", "error"}

CandidateSet(cat) == {Candidates(cat)[i] : i \in DOMAIN Candidates(cat)}

Decodings(cat) ==
    {d \in [forms : SUBSET CandidateSet(cat),
            sub : SubForms \cup {"none"},
            extract : Extractions(cat),
            extractBare : {"ok", "error"}] :
        /\ (d.sub # "none") <=> ("X509_SubjectPublicKeyInfo" \in d.forms)
        /\ d.extractBare = "error" =>
              /\ cat = "PubKey"
              /\ d.forms = {"X509_SubjectPublicKeyInfo", "RSAPublicKey"}
              /\ d.sub # "other"
              /\ d.extract = "error"
        /\ d.extract # "ok" => \E c \in d.forms : Decodes(d, c)}

(* The encodings of the data: DER, PEM that split_pem and pem2der accept,  *)
(* and data with a BEGIN marker that they reject.                          *)
Encodings == {"DER", "PEM", "bad PEM"}

ImportInputs(cat) ==
    {[cat |-> cat, isfile |-> f.isfile, size |-> f.size,
      readable |-> f.readable, enc |-> e,
      forms |-> d.forms, sub |-> d.sub,
      extract |-> d.extract, extractBare |-> d.extractBare] :
        f \in Files(cat), e \in Encodings, d \in Decodings(cat)}

(* The lines texts are made of: header lines that end in "-----\n", with   *)
(* a blank before the line end, with a carriage return, or cut short       *)
(* after the label; a line of base64; footer lines with and without the    *)
(* final newline, or cut short after the label.                            *)
LabelX == <<" ", "X">>

Lines ==
    {BeginMarker \o LabelX \o Dashes \o <<"\n">>,
     BeginMarker \o LabelX \o Dashes \o <<" ", "\n">>,
     BeginMarker \o LabelX \o Dashes \o <<"\r", "\n">>,
     BeginMarker \o LabelX,
     <<"Q", "U", "J", "D", "\n">>,
     EndMarker \o LabelX \o Dashes \o <<"\n">>,
     EndMarker \o LabelX \o Dashes,
     EndMarker \o LabelX}

RECURSIVE Concat(_)
Concat(ls) == IF ls = <<>> THEN <<>> ELSE ls[1] \o Concat(Tail(ls))

Texts == {Concat(ls) : ls \in SeqsUpTo(Lines, MaxLines)}

(* DER strings of every length up to MaxDerLen. *)
DerStrings ==
    {[i \in 1..n |-> (seed + i * stride) % 256] :
        n \in 0..MaxDerLen, seed \in {0, 255}, stride \in {0, 7}}

(* Labels: none, a word, a word with a hyphen, five dashes. *)
Labels == {<<>>, <<"X">>, <<"A", "-", "B">>, Dashes}

(* The DER bytes a public key is imported from: the SubjectPublicKeyInfo   *)
(* of a key of each algorithm, and a bare RSAPublicKey.                    *)
PubKeyDers ==
    {KeyDer("SubjectPublicKeyInfo", h) : h \in PublicHandles}
        \cup {KeyDer("RSAPublicKey", public_key(PrivateHandle("RSA", i))) :
                i \in KeyIds}

(* The DER bytes a private key is imported from. *)
PrivKeyDers ==
    {KeyDer("PrivateKey", PrivateHandle(a, i)) :
        a \in {"RSA", "ECDSA", "EdDSA"}, i \in KeyIds}

(* Certificate bodies: a declared signature algorithm, the subject's key   *)
(* and the two names.                                                      *)
TbsCerts ==
    {[signature |-> a, subjectPublicKeyInfo |-> KeyDer("SubjectPublicKeyInfo", h),
      issuer |-> i, subject |-> s] :
        a \in SigAlgs,
        h \in {public_key(PrivateHandle(g, "k1")) : g \in {"RSA", "ECDSA", "EdDSA"}},
        i \in Names, s \in Names}

(* The Cert objects at hand: a body signed by its issuer's RSA key with    *)
(* the hash it declares, imported.                                         *)
KeyCerts ==
    {LET issuerKey == PrivKeyOfDer(KeyDer("PrivateKey", PrivateHandle("RSA", i)))
         signed    == resignCert(issuerKey, [tbsCertificate |-> b])
     IN  import_from_asn1pkt(BlankCert, signed.c).obj :
        b \in TbsCerts, i \in KeyIds}

(* The values of the argument h of signTBSCert: left out, None, a hash. *)
HArgs == {"omitted", "None"} \cup HashNames

----------------------------------------------------------------------------
(* The components at rest: no call of theirs is running.                   *)

NoResult == [found |-> FALSE, chain |-> <<>>]

ChainIdle ==
    /\ certList = <<>>
    /\ cert0 = None
    /\ chain = <<>>
    /\ certList0 = <<>>
    /\ appends = 0
    /\ passes = 0
    /\ lastPass = "none"

VerifyIdle ==
    /\ vself = <<>>
    /\ anchors = <<>>
    /\ untrusted = <<>>
    /\ aidx = 1
    /\ result = NoResult
    /\ tried = <<>>

RevokeIdle ==
    /\ rcert = None
    /\ crl_list = <<>>
    /\ ridx = 1
    /\ rresult = FALSE

NoBytes == [raised |-> "none", der |-> <<>>]

NoStr == [type |-> "none", data |-> <<>>]

NoObj == [raised |-> "none", frmt |-> "none", der |-> <<>>]

CodecIdle ==
    /\ pem_input = <<>>
    /\ decoded = NoBytes
    /\ remaining = <<>>
    /\ pieces = <<>>
    /\ der_given = <<>>
    /\ label = <<>>
    /\ pem_made = NoStr
    /\ back = NoBytes
    /\ backBytes = NoBytes
    /\ made = NoObj

ImportIdle ==
    /\ obj_path = None
    /\ fileRead = FALSE
    /\ pemRun = FALSE
    /\ frmt = "none"
    /\ attempts = <<>>
    /\ objClass = "none"
    /\ filled = FALSE
    /\ extractFailed = FALSE
    /\ error = "none"

KeysIdle ==
    /\ kobj = NoPrivKey
    /\ pobj = NoPubKey
    /\ ctor = "none"
    /\ ccert = BlankCert
    /\ ccert0 = BlankCert
    /\ hgiven = "none"
    /\ signedCert = NoX509
    /\ verdict = "none"

----------------------------------------------------------------------------
(* Specification of chain construction                                     *)

Init ==
    /\ pc = "seed"
    /\ \E n \in 0..MaxCerts : \E f \in ObjCodes(n, 1), given \in BOOLEAN :
          LET all == ObjsOfCodes(f, 1) IN
          /\ given => all # <<>>
          /\ cert0 = IF given THEN all[1] ELSE None
          /\ certList = IF given THEN Tail(all) ELSE all
    /\ chain = <<>>
    /\ certList0 = certList
    /\ appends = 0
    /\ passes = 0
    /\ lastPass = "none"
    /\ VerifyIdle
    /\ RevokeIdle
    /\ ImportIdle
    /\ CodecIdle
    /\ KeysIdle

(* if cert0: self.append(cert0) *)
SeedStart ==
    /\ pc = "seed"
    /\ cert0 # None
    /\ chain' = Seed(certList, cert0).chain
    /\ certList' = Seed(certList, cert0).certList
    /\ pc' = "grow"
    /\ UNCHANGED <<cert0, certList0, appends, passes, lastPass, notChain>>

(* else: the scan for a root candidate finds one *)
SeedRoot ==
    /\ pc = "seed"
    /\ cert0 = None
    /\ Len(Seed(certList, cert0).chain) > 0
    /\ chain' = Seed(certList, cert0).chain
    /\ certList' = Seed(certList, cert0).certList
    /\ pc' = "grow"
    /\ UNCHANGED <<cert0, certList0, appends, passes, lastPass, notChain>>

(* else: no root candidate; "if len(self) > 0" skips the growth loop *)
SeedNone ==
    /\ pc = "seed"
    /\ cert0 = None
    /\ Len(Seed(certList, cert0).chain) = 0
    /\ chain' = Seed(certList, cert0).chain
    /\ certList' = Seed(certList, cert0).certList
    /\ pc' = "done"
    /\ UNCHANGED <<cert0, certList0, appends, passes, lastPass, notChain>>

(* a while iteration whose for loop appends *)
GrowAppend ==
    /\ pc = "grow"
    /\ certList # <<>>
    /\ Len(GrowPass(chain, certList).chain) # Len(chain)
    /\ chain' = GrowPass(chain, certList).chain
    /\ certList' = GrowPass(chain, certList).certList
    /\ appends' = appends + 1
    /\ passes' = passes + 1
    /\ lastPass' = "append"
    /\ UNCHANGED <<pc, cert0, certList0, notChain>>

(* a while iteration whose for loop appends nothing: break *)
GrowBreak ==
    /\ pc = "grow"
    /\ certList # <<>>
    /\ Len(GrowPass(chain, certList).chain) = Len(chain)
    /\ chain' = GrowPass(chain, certList).chain
    /\ certList' = GrowPass(chain, certList).certList
    /\ passes' = passes + 1
    /\ lastPass' = "nothing"
    /\ pc' = "done"
    /\ UNCHANGED <<cert0, certList0, appends, notChain>>

(* the while condition fails: the pool is empty *)
GrowExit ==
    /\ pc = "grow"
    /\ certList = <<>>
    /\ lastPass' = "empty"
    /\ pc' = "done"
    /\ UNCHANGED <<certList, cert0, chain, certList0, appends, passes, notChain>>

Next ==
    \/ SeedStart
    \/ SeedRoot
    \/ SeedNone
    \/ GrowAppend
    \/ GrowBreak
    \/ GrowExit

Spec == Init /\ [][Next]_vars

----------------------------------------------------------------------------
(* Specification of chain verification                                     *)

(* A chain under test is a list the constructor produced. *)
IsBuiltChain(s) ==
    IF Len(s) = 0 THEN TRUE ELSE ChainInit(Tail(s), s[1]).chain = s

InitVerify ==
    /\ pc = "verify"
    /\ \E n \in 0..MaxVerifyCerts : \E f \in ObjCodes(n, 2) :
          LET all == ObjsOfCodes(f, 2) IN
          \E i \in 0..Len(all) : \E j \in i..Len(all) :
              /\ anchors = SubSeq(all, 1, i)
              /\ vself = SubSeq(all, i + 1, j)
              /\ untrusted = SubSeq(all, j + 1, Len(all))
    /\ IsBuiltChain(vself)
    /\ aidx = 1
    /\ result = NoResult
    /\ tried = <<>>
    /\ ChainIdle
    /\ RevokeIdle
    /\ ImportIdle
    /\ CodecIdle
    /\ KeysIdle

Attempt == TryAnchor(vself, untrusted, anchors[aidx], Now)

(* if len(chain) == 1: continue *)
VerifyAnchorOnly ==
    /\ pc = "verify"
    /\ aidx <= Len(anchors)
    /\ Attempt.outcome = "anchor only"
    /\ tried' = Append(tried, Attempt)
    /\ aidx' = aidx + 1
    /\ UNCHANGED <<pc, vself, anchors, untrusted, result, notVerify>>

(* the chain holds no certificate of self after the anchor: next anchor *)
VerifyUntrustedOnly ==
    /\ pc = "verify"
    /\ aidx <= Len(anchors)
    /\ Attempt.outcome = "untrusted only"
    /\ tried' = Append(tried, Attempt)
    /\ aidx' = aidx + 1
    /\ UNCHANGED <<pc, vself, anchors, untrusted, result, notVerify>>

(* the date loop broke before the end of the chain: next anchor *)
VerifyExpired ==
    /\ pc = "verify"
    /\ aidx <= Len(anchors)
    /\ Attempt.outcome = "expired"
    /\ tried' = Append(tried, Attempt)
    /\ aidx' = aidx + 1
    /\ UNCHANGED <<pc, vself, anchors, untrusted, result, notVerify>>

(* return chain *)
VerifyReturn ==
    /\ pc = "verify"
    /\ aidx <= Len(anchors)
    /\ Attempt.outcome = "return"
    /\ tried' = Append(tried, Attempt)
    /\ result' = [found |-> TRUE, chain |-> Attempt.chain]
    /\ pc' = "returned"
    /\ UNCHANGED <<vself, anchors, untrusted, aidx, notVerify>>

(* the anchors are exhausted: return None *)
VerifyNone ==
    /\ pc = "verify"
    /\ aidx > Len(anchors)
    /\ result' = NoResult
    /\ pc' = "returned"
    /\ UNCHANGED <<vself, anchors, untrusted, aidx, tried, notVerify>>

NextVerify ==
    \/ VerifyAnchorOnly
    \/ VerifyUntrustedOnly
    \/ VerifyExpired
    \/ VerifyReturn
    \/ VerifyNone

SpecVerify == InitVerify /\ [][NextVerify]_vars

----------------------------------------------------------------------------
(* Specification of the revocation check                                   *)

InitRevoke ==
    /\ pc = "revoke"
    /\ rcert \in RevokeCerts
    /\ crl_list \in SeqsUpTo(CRLs, MaxCRLs)
    /\ ridx = 1
    /\ rresult = FALSE
    /\ ChainIdle
    /\ VerifyIdle
    /\ ImportIdle
    /\ CodecIdle
    /\ KeysIdle

(* the "if" branch returns *)
RevokeByKeyID ==
    /\ pc = "revoke"
    /\ ridx <= Len(crl_list)
    /\ CrlDecides(rcert, crl_list[ridx])
    /\ SameKeyID(rcert, crl_list[ridx])
    /\ rresult' = SerialListed(rcert, crl_list[ridx])
    /\ pc' = "revoke returned"
    /\ UNCHANGED <<rcert, crl_list, ridx, notRevoke>>

(* the "elif" branch returns *)
RevokeByIssuer ==
    /\ pc = "revoke"
    /\ ridx <= Len(crl_list)
    /\ CrlDecides(rcert, crl_list[ridx])
    /\ ~SameKeyID(rcert, crl_list[ridx])
    /\ rresult' = SerialListed(rcert, crl_list[ridx])
    /\ pc' = "revoke returned"
    /\ UNCHANGED <<rcert, crl_list, ridx, notRevoke>>

(* neither branch is taken: on to the next CRL *)
RevokeNextCRL ==
    /\ pc = "revoke"
    /\ ridx <= Len(crl_list)
    /\ ~CrlDecides(rcert, crl_list[ridx])
    /\ ridx' = ridx + 1
    /\ UNCHANGED <<pc, rcert, crl_list, rresult, notRevoke>>

(* the list is exhausted: return False *)
RevokeNoCRL ==
    /\ pc = "revoke"
    /\ ridx > Len(crl_list)
    /\ rresult' = FALSE
    /\ pc' = "revoke returned"
    /\ UNCHANGED <<rcert, crl_list, ridx, notRevoke>>

NextRevoke ==
    \/ RevokeByKeyID
    \/ RevokeByIssuer
    \/ RevokeNextCRL
    \/ RevokeNoCRL

SpecRevoke == InitRevoke /\ [][NextRevoke]_vars

----------------------------------------------------------------------------
(* Specification of the import of a key, a certificate or a CRL            *)

InitImport ==
    /\ pc = "import"
    /\ \E cat \in Categories : obj_path \in ImportInputs(cat)
    /\ fileRead = FALSE
    /\ pemRun = FALSE
    /\ frmt = "none"
    /\ attempts = <<>>
    /\ objClass = "none"
    /\ filled = FALSE
    /\ extractFailed = FALSE
    /\ error = "none"
    /\ ChainIdle
    /\ VerifyIdle
    /\ RevokeIdle
    /\ CodecIdle
    /\ KeysIdle

(* if _size > obj_max_size: raise Exception(error_msg) *)
ImportTooBig ==
    /\ pc = "import"
    /\ obj_path.isfile
    /\ obj_path.size > obj_max_size(obj_path.cat)
    /\ error' = "Unable to import data"
    /\ pc' = "raised"
    /\ UNCHANGED <<obj_path, fileRead, pemRun, frmt, attempts, objClass,
                   filled, extractFailed, notImport>>

(* open() or f.read() raises *)
ImportUnreadable ==
    /\ pc = "import"
    /\ obj_path.isfile
    /\ obj_path.size <= obj_max_size(obj_path.cat)
    /\ ~obj_path.readable
    /\ error' = "Unable to import data"
    /\ pc' = "raised"
    /\ UNCHANGED <<obj_path, fileRead, pemRun, frmt, attempts, objClass,
                   filled, extractFailed, notImport>>

(* _raw = f.read() *)
ImportRead ==
    /\ pc = "import"
    /\ obj_path.isfile
    /\ obj_path.size <= obj_max_size(obj_path.cat)
    /\ obj_path.readable
    /\ fileRead' = TRUE
    /\ pc' = "decode"
    /\ UNCHANGED <<obj_path, pemRun, frmt, attempts, objClass, filled,
                   extractFailed, error, notImport>>

(* else: _raw = obj_path *)
ImportRaw ==
    /\ pc = "import"
    /\ ~obj_path.isfile
    /\ pc' = "decode"
    /\ UNCHANGED <<obj_path, fileRead, pemRun, frmt, attempts, objClass,
                   filled, extractFailed, error, notImport>>

(* no BEGIN marker in _raw: frmt = "DER" *)
DecodeDER ==
    /\ pc = "decode"
    /\ obj_path.enc = "DER"
    /\ frmt' = "DER"
    /\ objClass' = IF obj_path.cat \in {"Cert", "CRL"}
                   THEN obj_path.cat ELSE "_PKIObj"
    /\ pc' = "resolve"
    /\ UNCHANGED <<obj_path, fileRead, pemRun, attempts, filled,
                   extractFailed, error, notImport>>

(* frmt = "PEM"; split_pem and pem2der return *)
DecodePEM ==
    /\ pc = "decode"
    /\ obj_path.enc = "PEM"
    /\ pemRun' = TRUE
    /\ frmt' = "PEM"
    /\ objClass' = IF obj_path.cat \in {"Cert", "CRL"}
                   THEN obj_path.cat ELSE "_PKIObj"
    /\ pc' = "resolve"
    /\ UNCHANGED <<obj_path, fileRead, attempts, filled, extractFailed,
                   error, notImport>>

(* split_pem or pem2der raises: except Exception: raise Exception(error_msg) *)
DecodePEMFails ==
    /\ pc = "decode"
    /\ obj_path.enc = "bad PEM"
    /\ pemRun' = TRUE
    /\ error' = "Unable to import data"
    /\ pc' = "raised"
    /\ UNCHANGED <<obj_path, fileRead, frmt, attempts, objClass, filled,
                   extractFailed, notImport>>

(* The candidate the next try block decodes under. *)
NextCandidate == Candidates(obj_path.cat)[Len(attempts) + 1]

(* a try block fails; the except clause holds another try block *)
ResolveMiss ==
    /\ pc = "resolve"
    /\ Len(attempts) + 1 < Len(Candidates(obj_path.cat))
    /\ ~Decodes(obj_path, NextCandidate)
    /\ attempts' = Append(attempts, NextCandidate)
    /\ UNCHANGED <<pc, obj_path, fileRead, pemRun, frmt, objClass, filled,
                   extractFailed, error, notImport>>

(* the innermost try block fails: raise Exception("Unable to import ...") *)
ResolveExhausted ==
    /\ pc = "resolve"
    /\ Len(attempts) + 1 = Len(Candidates(obj_path.cat))
    /\ ~Decodes(obj_path, NextCandidate)
    /\ attempts' = Append(attempts, NextCandidate)
    /\ error' = UnableToImport(obj_path.cat)
    /\ pc' = "raised"
    /\ UNCHANGED <<obj_path, fileRead, pemRun, frmt, objClass, filled,
                   extractFailed, notImport>>

(* a try block decodes the bytes and assigns obj.__class__ *)
ResolveHit ==
    /\ pc = "resolve"
    /\ Len(attempts) < Len(Candidates(obj_path.cat))
    /\ Decodes(obj_path, NextCandidate)
    /\ attempts' = Append(attempts, NextCandidate)
    /\ objClass' = ClassOf(NextCandidate, obj_path.sub)
    /\ pc' = "extract"
    /\ UNCHANGED <<obj_path, fileRead, pemRun, frmt, filled, extractFailed,
                   error, notImport>>

(* How import_from_asn1pkt / import_from_der ends on the structure decoded *)
(* last.                                                                   *)
Extraction ==
    IF extractFailed THEN obj_path.extractBare ELSE obj_path.extract

(* the field extraction returns; return obj *)
ExtractReturns ==
    /\ pc = "extract"
    /\ Extraction = "ok"
    /\ filled' = TRUE
    /\ pc' = "returned"
    /\ UNCHANGED <<obj_path, fileRead, pemRun, frmt, attempts, objClass,
                   extractFailed, error, notImport>>

(* _PrivKeyFactory: except ImportError: pass; return obj *)
ExtractPasses ==
    /\ pc = "extract"
    /\ obj_path.cat = "PrivKey"
    /\ Extraction = "ImportError"
    /\ extractFailed' = TRUE
    /\ pc' = "returned"
    /\ UNCHANGED <<obj_path, fileRead, pemRun, frmt, attempts, objClass,
                   filled, error, notImport>>

(* _PubKeyFactory: the extraction sits inside the try block of             *)
(* X509_SubjectPublicKeyInfo, whose except clause tries RSAPublicKey       *)
ExtractFallsBack ==
    /\ pc = "extract"
    /\ obj_path.cat = "PubKey"
    /\ attempts = <<"X509_SubjectPublicKeyInfo">>
    /\ Extraction = "error"
    /\ extractFailed' = TRUE
    /\ pc' = "resolve"
    /\ UNCHANGED <<obj_path, fileRead, pemRun, frmt, attempts, objClass,
                   filled, error, notImport>>

(* the exception of the field extraction leaves the call: as it is from    *)
(* _PrivKeyFactory, as Exception("Unable to import ...") from the others   *)
ExtractRaises ==
    /\ pc = "extract"
    /\ Extraction = "error"
    /\ obj_path.cat = "PubKey" => attempts # <<"X509_SubjectPublicKeyInfo">>
    /\ extractFailed' = TRUE
    /\ error' = IF obj_path.cat = "PrivKey"
                THEN "provider error"
                ELSE UnableToImport(obj_path.cat)
    /\ pc' = "raised"
    /\ UNCHANGED <<obj_path, fileRead, pemRun, frmt, attempts, objClass,
                   filled, notImport>>

NextImport ==
    \/ ImportTooBig
    \/ ImportUnreadable
    \/ ImportRead
    \/ ImportRaw
    \/ DecodeDER
    \/ DecodePEM
    \/ DecodePEMFails
    \/ ResolveMiss
    \/ ResolveExhausted
    \/ ResolveHit
    \/ ExtractReturns
    \/ ExtractPasses
    \/ ExtractFallsBack
    \/ ExtractRaises

SpecImport == InitImport /\ [][NextImport]_vars

----------------------------------------------------------------------------
(* Specification of the PEM codec: pem2der and split_pem on a text, and    *)
(* der2pem followed by the ways back                                       *)

InitCodec ==
    /\ \/ /\ pc = "pem2der"
          /\ pem_input \in Texts
          /\ der_given = <<>>
          /\ label = <<>>
       \/ /\ pc = "der2pem"
          /\ pem_input = <<>>
          /\ der_given \in DerStrings
          /\ label \in Labels
    /\ decoded = NoBytes
    /\ remaining = <<>>
    /\ pieces = <<>>
    /\ pem_made = NoStr
    /\ back = NoBytes
    /\ backBytes = NoBytes
    /\ made = NoObj
    /\ ChainIdle
    /\ VerifyIdle
    /\ RevokeIdle
    /\ ImportIdle
    /\ KeysIdle

(* pem2der(pem_input) raises; split_pem is called on the same bytes next *)
Pem2DerRaises ==
    /\ pc = "pem2der"
    /\ pem2der_bytes(pem_input).raised # "no"
    /\ decoded' = pem2der_bytes(pem_input)
    /\ remaining' = pem_input
    /\ pc' = "split_pem"
    /\ UNCHANGED <<pem_input, pieces, der_given, label, pem_made, back,
                   backBytes, made, notCodec>>

(* pem2der(pem_input) returns; split_pem is called on the same bytes next *)
Pem2DerReturns ==
    /\ pc = "pem2der"
    /\ pem2der_bytes(pem_input).raised = "no"
    /\ decoded' = pem2der_bytes(pem_input)
    /\ remaining' = pem_input
    /\ pc' = "split_pem"
    /\ UNCHANGED <<pem_input, pieces, der_given, label, pem_made, back,
                   backBytes, made, notCodec>>

(* pem_strings.append(s[start_idx:end_idx]); s = s[end_idx:] *)
SplitAppend ==
    /\ pc = "split_pem"
    /\ SplitStep(remaining).does = "append"
    /\ pieces' = Append(pieces, SplitStep(remaining).piece)
    /\ remaining' = SplitStep(remaining).rest
    /\ UNCHANGED <<pc, pem_input, decoded, der_given, label, pem_made, back,
                   backBytes, made, notCodec>>

(* if start_idx == -1: break *)
SplitBreak ==
    /\ pc = "split_pem"
    /\ SplitStep(remaining).does = "break"
    /\ pc' = "split returned"
    /\ UNCHANGED <<pem_input, decoded, remaining, pieces, der_given, label,
                   pem_made, back, backBytes, made, notCodec>>

(* while s != b"" fails *)
SplitEnd ==
    /\ pc = "split_pem"
    /\ SplitStep(remaining).does = "end"
    /\ pc' = "split returned"
    /\ UNCHANGED <<pem_input, decoded, remaining, pieces, der_given, label,
                   pem_made, back, backBytes, made, notCodec>>

(* if end_idx == -1: raise Exception("Invalid PEM object (missing END tag)") *)
SplitRaises ==
    /\ pc = "split_pem"
    /\ SplitStep(remaining).does = "raise"
    /\ pc' = "split raised"
    /\ UNCHANGED <<pem_input, decoded, remaining, pieces, der_given, label,
                   pem_made, back, backBytes, made, notCodec>>

(* pem_string = der2pem(der_string, obj) *)
Der2Pem ==
    /\ pc = "der2pem"
    /\ pem_made' = der2pem(der_given, label)
    /\ pc' = "pem2der of str"
    /\ UNCHANGED <<pem_input, decoded, remaining, pieces, der_given, label, back,
                   backBytes, made, notCodec>>

(* pem2der(pem_string) *)
Pem2DerOfStr ==
    /\ pc = "pem2der of str"
    /\ back' = pem2der(pem_made)
    /\ pc' = "pem2der of bytes"
    /\ UNCHANGED <<pem_input, decoded, remaining, pieces, der_given, label,
                   pem_made, backBytes, made, notCodec>>

(* pem2der(pem_string.encode()) *)
Pem2DerOfBytes ==
    /\ pc = "pem2der of bytes"
    /\ backBytes' = pem2der(bytes_encode(pem_made))
    /\ pc' = "PKIObj"
    /\ UNCHANGED <<pem_input, decoded, remaining, pieces, der_given, label,
                   pem_made, back, made, notCodec>>

(* _PKIObjMaker.__call__(cls, pem_string, obj_max_size) *)
MakePKIObj ==
    /\ pc = "PKIObj"
    /\ made' = PKIObj(pem_made)
    /\ pc' = "round trip done"
    /\ UNCHANGED <<pem_input, decoded, remaining, pieces, der_given, label,
                   pem_made, back, backBytes, notCodec>>

NextCodec ==
    \/ Pem2DerRaises
    \/ Pem2DerReturns
    \/ SplitAppend
    \/ SplitBreak
    \/ SplitEnd
    \/ SplitRaises
    \/ Der2Pem
    \/ Pem2DerOfStr
    \/ Pem2DerOfBytes
    \/ MakePKIObj

SpecCodec == InitCodec /\ [][NextCodec]_vars

----------------------------------------------------------------------------
(* Specification of the keys: the constructors of PubKey and PrivKey, then *)
(* with a private key k and a certificate c either k.signTBSCert on the    *)
(* body of c and k.verifyCert on the result, or                            *)
(* c.setSubjectPublicKeyFromPrivateKey(k) and c.resignWith(k).             *)

InitKeys ==
    /\ pc = "new key"
    /\ kobj = NoPrivKey
    /\ pobj = NoPubKey
    /\ ctor = "none"
    /\ ccert \in KeyCerts
    /\ ccert0 = ccert
    /\ hgiven = "none"
    /\ signedCert = NoX509
    /\ verdict = "none"
    /\ ChainIdle
    /\ VerifyIdle
    /\ RevokeIdle
    /\ ImportIdle
    /\ CodecIdle

(* PubKey(cryptography_obj=handle), on any of the classes *)
NewPubKeyOfCryptographyObj ==
    /\ pc = "new key"
    /\ \E cls \in PubKeyClasses, handle \in PublicHandles :
          pobj' = PubKeyOfCryptographyObj(cls, handle)
    /\ ctor' = "cryptography_obj"
    /\ pc' = "public key made"
    /\ UNCHANGED <<kobj, ccert, ccert0, hgiven, signedCert, verdict, notKeys>>

(* PubKey(), PubKeyRSA(), PubKeyECDSA(), PubKeyEdDSA() *)
NewPubKeyGenerated ==
    /\ pc = "new key"
    /\ \E cls \in PubKeyClasses, id \in KeyIds :
          pobj' = PubKeyGenerated(cls, id)
    /\ ctor' = "generation"
    /\ pc' = "public key made"
    /\ UNCHANGED <<kobj, ccert, ccert0, hgiven, signedCert, verdict, notKeys>>

(* PubKey((e, m, mLen)) *)
NewPubKeyOfTuple ==
    /\ pc = "new key"
    /\ \E cls \in PubKeyClasses, id \in KeyIds :
          pobj' = PubKeyOfTuple(cls, id)
    /\ ctor' = "tuple"
    /\ pc' = "public key made"
    /\ UNCHANGED <<kobj, ccert, ccert0, hgiven, signedCert, verdict, notKeys>>

(* PubKey(der) *)
NewPubKeyOfDer ==
    /\ pc = "new key"
    /\ \E der \in PubKeyDers :
          LET imported == PubKeyOfDer(der) IN
          /\ pobj' = imported.obj
          /\ pc' = IF imported.raised THEN "raised" ELSE "public key made"
    /\ ctor' = "import"
    /\ UNCHANGED <<kobj, ccert, ccert0, hgiven, signedCert, verdict, notKeys>>

(* PrivKey(), PrivKeyRSA(), PrivKeyECDSA(), PrivKeyEdDSA(): the private    *)
(* key and the public key object derived from it.                          *)
NewPrivKeyGenerated ==
    /\ pc = "new key"
    /\ \E cls \in PrivKeyClasses, id \in KeyIds :
          kobj' = PrivKeyGenerated(cls, id)
    /\ pobj' = kobj'.pubkey
    /\ ctor' = "derivation"
    /\ pc' = "keyed"
    /\ UNCHANGED <<ccert, ccert0, hgiven, signedCert, verdict, notKeys>>

(* PrivKey(der) *)
NewPrivKeyOfDer ==
    /\ pc = "new key"
    /\ \E der \in PrivKeyDers : kobj' = PrivKeyOfDer(der)
    /\ pobj' = kobj'.pubkey
    /\ ctor' = "derivation"
    /\ pc' = "keyed"
    /\ UNCHANGED <<ccert, ccert0, hgiven, signedCert, verdict, notKeys>>

(* k.signTBSCert(c.tbsCertificate) and k.signTBSCert(c.tbsCertificate, h)  *)
SignTBSCert ==
    /\ pc = "keyed"
    /\ \E h \in HArgs :
          LET signed == signTBSCert(kobj, ccert.tbsCertificate,
                                    IF h = "omitted" THEN DefaultH ELSE h)
          IN  /\ hgiven' = h
              /\ signedCert' = signed.c
              /\ pc' = IF signed.raised THEN "raised" ELSE "signed"
    /\ UNCHANGED <<kobj, pobj, ctor, ccert, ccert0, verdict, notKeys>>

(* k.verifyCert(the certificate signTBSCert returned) *)
VerifyCert ==
    /\ pc = "signed"
    /\ verdict' = PrivKey_verifyCert(kobj, signedCert)
    /\ pc' = "verified"
    /\ UNCHANGED <<kobj, pobj, ctor, ccert, ccert0, hgiven, signedCert,
                   notKeys>>

(* c.setSubjectPublicKeyFromPrivateKey(key) with k, with k.pubkey, and     *)
(* with an object that is neither a PubKey nor a PrivKey (ValueError).     *)
SetSubjectPublicKey ==
    /\ pc = "keyed"
    /\ \E given \in {"PrivKey", "PubKey", "other"} :
          IF given = "other"
          THEN /\ pc' = "raised"
               /\ ccert' = ccert
          ELSE /\ pc' = "replaced"
               /\ ccert' = setSubjectPublicKeyFromPrivateKey(
                               ccert,
                               IF given = "PrivKey" THEN kobj ELSE kobj.pubkey)
    /\ UNCHANGED <<kobj, pobj, ctor, ccert0, hgiven, signedCert, verdict,
                   notKeys>>

(* c.resignWith(k) *)
ResignWith ==
    /\ pc = "replaced"
    /\ LET resigned == resignWith(ccert, kobj) IN
          /\ ccert' = resigned.obj
          /\ pc' = IF resigned.raised THEN "raised" ELSE "resigned"
    /\ UNCHANGED <<kobj, pobj, ctor, ccert0, hgiven, signedCert, verdict,
                   notKeys>>

NextKeys ==
    \/ NewPubKeyOfCryptographyObj
    \/ NewPubKeyGenerated
    \/ NewPubKeyOfTuple
    \/ NewPubKeyOfDer
    \/ NewPrivKeyGenerated
    \/ NewPrivKeyOfDer
    \/ SignTBSCert
    \/ VerifyCert
    \/ SetSubjectPublicKey
    \/ ResignWith

SpecKeys == InitKeys /\ [][NextKeys]_vars

----------------------------------------------------------------------------
(* Properties of chain construction                                        *)

(* "parent is the issuer of child": the subject hash of parent equals the  *)
(* issuer hash of child and the signature of child verifies under the      *)
(* public key of parent.                                                   *)
IssuedBy(child, parent) ==
    /\ subject_hash(parent) = issuer_hash(child)
    /\ verifyCert(parent.pubKey, child)

(* The orderings of a list. *)
Orderings(s) ==
    {[i \in DOMAIN s |-> s[f[i]]] :
        f \in {g \in [DOMAIN s -> DOMAIN s] : \A a, b \in DOMAIN s : g[a] = g[b] => a = b}}

(* q is one linear issuance path: q[1] is the only self-signed member and  *)
(* the issuance relation among the members is exactly "next on the path".  *)
LinearPath(q) ==
    /\ Len(q) >= 1
    /\ \A i, j \in DOMAIN q :
          IssuedBy(q[j], q[i]) <=> (j = i + 1 \/ (i = 1 /\ j = 1))

(* 1 when the seed was taken out of the pool, else 0. *)
SeedTaken == IF cert0 = None /\ chain # <<>> THEN 1 ELSE 0

(* C4: construction never appends a certificate twice: no certificate      *)
(* object occurs at two positions of the chain, also when the start        *)
(* certificate is itself a member of the pool.                             *)
C4_NoCertTwice ==
    \A i, j \in DOMAIN chain : i # j => chain[i] # chain[j]

(* C5: construction terminates: the growth loop appends at most |pool|     *)
(* times, every appending iteration takes exactly one element out of the   *)
(* pool, the loop runs on only after an append, and it ends at the first   *)
(* pass that appends nothing or when the pool is empty.                    *)
C5_GrowthTerminates ==
    /\ appends <= Len(certList0)
    /\ passes <= appends + 1
    /\ Len(chain) = appends + (IF pc = "seed" \/ chain = <<>> THEN 0 ELSE 1)
    /\ Len(certList) + appends + SeedTaken = Len(certList0)
    /\ pc = "grow" => lastPass \in {"none", "append"}
    /\ (pc = "done" /\ lastPass = "nothing") =>
          /\ passes = appends + 1
          /\ \A i \in DOMAIN certList : ~IssuedBy(certList[i], chain[Len(chain)])
    /\ (pc = "done" /\ lastPass = "empty") =>
          /\ passes = appends
          /\ certList = <<>>
    /\ pc # "done" => ENABLED Next

C5_Witness ==
    /\ pc = "done"
    /\ appends = 1
    /\ passes = 2
    /\ lastPass = "nothing"
    /\ Len(certList0) = 3

(* C6 as stated: for every adjacent pair, chain[i+1] is the issuer of      *)
(* chain[i].                                                               *)
C6_NextIssuesPrevious ==
    \A i \in 1..(Len(chain) - 1) : IssuedBy(chain[i], chain[i + 1])

(* C6 amended: for every adjacent pair, chain[i] is the issuer of          *)
(* chain[i+1]: the subject hash of chain[i] equals the issuer hash of      *)
(* chain[i+1] and the signature of chain[i+1] verifies under the public    *)
(* key of chain[i].                                                        *)
C6_PreviousIssuesNext ==
    \A i \in 1..(Len(chain) - 1) : IssuedBy(chain[i + 1], chain[i])

C6_Witness ==
    /\ pc = "done"
    /\ Len(chain) = 3
    /\ chain[1] # chain[2]
    /\ ~IssuedBy(chain[1], chain[2])

(* C7: a pool that is one linear issuance path, in any order, built        *)
(* without a start certificate, yields the path root first and leaf last   *)
(* and leaves the pool empty.                                              *)
C7_LinearPoolYieldsPath ==
    (pc = "done" /\ cert0 = None) =>
        \A q \in Orderings(certList0) :
            LinearPath(q) => (chain = q /\ certList = <<>>)

C7_Witness ==
    /\ pc = "done"
    /\ cert0 = None
    /\ Len(certList0) = 3
    /\ LinearPath(<<certList0[3], certList0[2], certList0[1]>>)
    /\ chain = <<certList0[3], certList0[2], certList0[1]>>

(* The positions of the self-signed members of the pool. *)
RootPositions == {i \in DOMAIN certList : isSelfSigned(certList[i])}

(* C11: seeding.  With a start certificate the chain begins as [start]     *)
(* and the pool is not touched; without one the chain is seeded with the   *)
(* first self-signed pool member in pool order, which leaves the pool;     *)
(* with no self-signed member the chain stays empty, the pool is left      *)
(* unchanged and no growth pass is made.                                   *)
C11_Seeding ==
    [][pc = "seed" =>
        /\ cert0 # None =>
              /\ chain' = <<cert0>>
              /\ certList' = certList
              /\ pc' = "grow"
        /\ (cert0 = None /\ RootPositions # {}) =>
              LET k == CHOOSE i \in RootPositions : \A j \in RootPositions : i <= j
              IN  /\ chain' = <<certList[k]>>
                  /\ certList' = DelAt(certList, k)
                  /\ pc' = "grow"
        /\ (cert0 = None /\ RootPositions = {}) =>
              /\ chain' = <<>>
              /\ certList' = certList
              /\ pc' = "done"
              /\ passes' = 0
              /\ appends' = 0]_vars

(* A pool whose first member is not self-signed and whose second and third *)
(* are: the second became the seed and left the pool.                      *)
C11_Witness ==
    /\ pc = "grow"
    /\ cert0 = None
    /\ passes = 0
    /\ Len(certList0) = 3
    /\ ~isSelfSigned(certList0[1])
    /\ isSelfSigned(certList0[2])
    /\ isSelfSigned(certList0[3])
    /\ certList0[2] # certList0[3]
    /\ chain = <<certList0[2]>>
    /\ certList = <<certList0[1], certList0[3]>>

(* The positions of the pool members issued by the tail of the chain. *)
TailIssues ==
    {i \in DOMAIN certList : IssuedBy(certList[i], chain[Len(chain)])}

(* a is a prefix of b. *)
IsPrefix(a, b) == Len(a) <= Len(b) /\ SubSeq(b, 1, Len(a)) = a

(* C21: greedy growth without backtracking.  A growth step appends the     *)
(* first pool member, in current pool order, that the tail of the chain    *)
(* issued, and takes it out of the pool; with no such member it appends    *)
(* nothing and construction ends.  No step removes or reorders what the    *)
(* chain already holds, and the chain construction ends with is the one    *)
(* function of pool order and start, which need not be the longest chain   *)
(* the pool allows.                                                        *)
C21_GreedyGrowth ==
    [][/\ (pc = "grow" /\ certList # <<>> /\ TailIssues # {}) =>
              LET k == CHOOSE i \in TailIssues : \A j \in TailIssues : i <= j
              IN  /\ chain' = Append(chain, certList[k])
                  /\ certList' = DelAt(certList, k)
                  /\ pc' = "grow"
       /\ (pc = "grow" /\ (certList = <<>> \/ TailIssues = {})) =>
              /\ chain' = chain
              /\ certList' = certList
              /\ pc' = "done"
       /\ IsPrefix(chain, chain')
       /\ pc' = "done" => chain' = ChainInit(certList0, cert0).chain]_vars

(* The start certificate issued both pool members and the second issued    *)
(* the first: the first was appended, nothing follows it, and the pool in  *)
(* the other order gives a longer chain.                                   *)
C21_Witness ==
    /\ pc = "done"
    /\ cert0 # None
    /\ Len(certList0) = 2
    /\ IssuedBy(certList0[1], cert0)
    /\ IssuedBy(certList0[2], cert0)
    /\ chain = <<cert0, certList0[1]>>
    /\ certList = <<certList0[2]>>
    /\ Len(ChainInit(<<certList0[2], certList0[1]>>, cert0).chain) > Len(chain)

(* The number of positions of list s that hold the object x. *)
Count(x, s) == Cardinality({i \in DOMAIN s : s[i] = x})

(* The part of the chain that came out of the pool: all of it but a start  *)
(* certificate the caller supplied.                                        *)
TakenFromPool == IF cert0 # None /\ chain # <<>> THEN Tail(chain) ELSE chain

(* a is b with some positions left out: the members of a are in the order  *)
(* they have in b.                                                         *)
IsSubsequence(a, b) ==
    \E f \in [DOMAIN a -> DOMAIN b] :
        /\ \A i, j \in DOMAIN a : i < j => f[i] < f[j]
        /\ \A i \in DOMAIN a : a[i] = b[f[i]]

(* C22: pool conservation.  Construction works on the caller's list: at    *)
(* every step the certificates taken from the pool into the chain and the  *)
(* certificates still in the pool are together the original pool, as a     *)
(* multiset; what is left in the pool is in its original relative order;   *)
(* and a start certificate the caller supplied is never removed from the   *)
(* pool.                                                                   *)
C22_PoolConserved ==
    /\ \A i \in DOMAIN certList0 :
          Count(certList0[i], TakenFromPool) + Count(certList0[i], certList)
              = Count(certList0[i], certList0)
    /\ Len(TakenFromPool) + Len(certList) = Len(certList0)
    /\ IsSubsequence(certList, certList0)
    /\ appends > 0 => certList # certList0
    /\ cert0 # None => Count(cert0, certList) = Count(cert0, certList0)

----------------------------------------------------------------------------
(* Properties of chain verification                                        *)

(* c has not expired at the time of the call *)
Unexpired(c) == remainingDays(c, Now) >= 0

(* The chain construction yields for the k-th anchor. *)
ChainOfAnchor(k) == ChainInit(vself \o untrusted, anchors[k]).chain

(* The checks of verify_chain as the specification words them: length,    *)
(* a certificate under test after the anchor, no expired member.           *)
PassesAllChecks(ch) ==
    /\ Len(ch) >= 2
    /\ \E i \in 2..Len(ch) : \E j \in DOMAIN vself : ch[i] = vself[j]
    /\ \A i \in DOMAIN ch : Unexpired(ch[i])

(* C1: a chain is returned only if every member of it, from the anchor to  *)
(* the last element inclusive, has remaining_validity_days() >= 0.         *)
C1_ReturnedChainUnexpired ==
    (pc = "returned" /\ result.found) =>
        \A i \in DOMAIN result.chain : Unexpired(result.chain[i])

(* C8: with unexpired root -> intermediate -> leaf, verifying [leaf]       *)
(* against anchors [root] with untrusted [intermediate] returns            *)
(* [root, intermediate, leaf]; with untrusted empty it returns no chain.   *)
C8_Scenario2 ==
    (pc = "returned" /\ Len(anchors) = 1 /\ Len(vself) = 1) =>
        LET root == anchors[1]
            leaf == vself[1]
        IN  /\ ( /\ Len(untrusted) = 1
                 /\ LinearPath(<<root, untrusted[1], leaf>>)
                 /\ Unexpired(root) /\ Unexpired(untrusted[1]) /\ Unexpired(leaf) )
               => ( /\ result.found
                    /\ result.chain = <<root, untrusted[1], leaf>> )
            /\ ( /\ untrusted = <<>>
                 /\ \E inter \in VerifyCerts :
                       /\ LinearPath(<<root, inter, leaf>>)
                       /\ Unexpired(root) /\ Unexpired(inter) /\ Unexpired(leaf) )
               => ~result.found

C8_Witness ==
    /\ pc = "returned"
    /\ Len(anchors) = 1 /\ Len(vself) = 1 /\ Len(untrusted) = 1
    /\ LinearPath(<<anchors[1], untrusted[1], vself[1]>>)
    /\ Unexpired(anchors[1]) /\ Unexpired(untrusted[1]) /\ Unexpired(vself[1])
    /\ result.found
    /\ Len(result.chain) = 3

(* C9: a returned chain has length at least 2 and holds, after the anchor, *)
(* at least one certificate of the chain under test.                       *)
C9_ReturnedChainReliesOnSelf ==
    (pc = "returned" /\ result.found) =>
        /\ Len(result.chain) >= 2
        /\ \E i \in 2..Len(result.chain) :
              \E j \in DOMAIN vself : result.chain[i] = vself[j]

C9_Witness ==
    /\ pc = "returned"
    /\ result.found
    /\ Len(result.chain) = 3
    /\ untrusted # <<>>
    /\ result.chain[2] = untrusted[1]
    /\ result.chain[2] # vself[1]

(* C10: the result is the chain of the first anchor, in the order given,   *)
(* whose chain passes all checks (length, a certificate under test, no     *)
(* expired member), and None when no anchor has such a chain.              *)
C10_FirstPassingAnchor ==
    pc = "returned" =>
        LET passing == {k \in DOMAIN anchors : PassesAllChecks(ChainOfAnchor(k))}
        IN  IF passing = {}
            THEN ~result.found
            ELSE /\ result.found
                 /\ \E k \in passing :
                       /\ \A m \in passing : k <= m
                       /\ result.chain = ChainOfAnchor(k)

----------------------------------------------------------------------------
(* Properties of the import                                                *)

(* The positions of the attempts whose structural decode succeeded. *)
Hits == {i \in DOMAIN attempts : Decodes(obj_path, attempts[i])}

(* The call is over. *)
ImportOver == pc \in {"returned", "raised"}

(* C12: type resolution is decided by the first candidate, in the fixed    *)
(* priority order, whose structural decode succeeds: the candidates are    *)
(* tried in that order, once a decode has succeeded no later candidate is  *)
(* tried, the class assigned then is the class the object keeps, and a     *)
(* returned object has the class of the earliest decoding candidate.       *)
C12_FirstDecodeWins ==
    pc \in {"resolve", "extract", "returned", "raised"} =>
        /\ attempts = SubSeq(Candidates(obj_path.cat), 1, Len(attempts))
        /\ \A i \in Hits : i = Len(attempts)
        /\ \A i \in Hits : objClass = ClassOf(attempts[i], obj_path.sub)
        /\ pc = "returned" => Hits # {}

(* C13: when a structural decode succeeded and the field extraction then   *)
(* raised, the call ends with an exception for every category: the         *)
(* failure is not swallowed, and no object is returned whose field         *)
(* extraction did not complete.                                            *)
C13_ExtractionFailureRaises ==
    /\ (ImportOver /\ extractFailed) => (pc = "raised" /\ error # "none")
    /\ pc = "returned" => filled

(* The maximum size of each category: 50 KiB for keys and certificates,    *)
(* 10 MiB for CRLs.                                                        *)
SizeLimit(cat) == IF cat = "CRL" THEN 10 * 1024 * 1024 ELSE 50 * 1024

(* C14: the path of an existing file whose size is strictly greater than   *)
(* the maximum of the category ends the import with the import error       *)
(* before the file is read and before any PEM or structural decode is      *)
(* attempted; a file of at most the maximum, exactly the maximum           *)
(* included, passes the size check and is read when it is readable.        *)
C14_OversizedFileRejected ==
    (pc # "import" /\ obj_path.isfile) =>
        /\ obj_path.size > SizeLimit(obj_path.cat) =>
              /\ pc = "raised"
              /\ error = "Unable to import data"
              /\ ~fileRead
              /\ ~pemRun
              /\ attempts = <<>>
        /\ (obj_path.size <= SizeLimit(obj_path.cat) /\ obj_path.readable) =>
              fileRead

(* A file of 51 KiB presented for private-key import was rejected unread. *)
C14_Witness ==
    /\ pc = "raised"
    /\ obj_path.cat = "PrivKey"
    /\ obj_path.isfile
    /\ obj_path.size = 51 * 1024
    /\ obj_path.readable
    /\ obj_path.forms # {}
    /\ ~fileRead
    /\ attempts = <<>>

----------------------------------------------------------------------------
(* Properties of the PEM codec                                             *)

(* The indices at which a BEGIN marker starts in t. *)
BeginsIn(t) == {i \in 0..Len(t) : Occurs(t, BeginMarker, i)}

(* C15: pem2der raises its exception for every input that contains more    *)
(* than one BEGIN marker, wherever the markers stand relative to each      *)
(* other and to the end of the first header line, and decodes nothing.     *)
C15_TwoMarkersRejected ==
    (pc \notin {"pem2der", "der2pem"} /\ Cardinality(BeginsIn(pem_input)) > 1) =>
        decoded = [raised |-> "Exception", der |-> <<>>]

(* C16: split_pem returns the complete PEM blocks of its input: every      *)
(* element returned starts with a BEGIN marker, contains the END marker    *)
(* that closes it and ends with the newline after it when there is one;    *)
(* empty input gives the empty list; and the call raises whenever some     *)
(* BEGIN marker has no END marker after it.                                *)
C16_SplitReturnsBlocks ==
    /\ pc = "split returned" =>
          /\ \A k \in DOMAIN pieces :
                LET e == pieces[k]
                    end_idx == Find(e, EndMarker, Len(BeginMarker))
                IN  /\ Occurs(e, BeginMarker, 0)
                    /\ end_idx # -1
                    /\ Find(e, <<"\n">>, end_idx) \in {-1, Len(e) - 1}
          /\ pem_input = <<>> => pieces = <<>>
    /\ pc \in {"split returned", "split raised"} =>
          ((\E i \in BeginsIn(pem_input) : Find(pem_input, EndMarker, i) = -1)
              => pc = "split raised")

(* C17: PEM round trip: for every DER string and every label,              *)
(* pem2der(der2pem(der_string, obj)) is der_string, and the object made    *)
(* from der2pem(der_string, obj) holds der_string as its DER.              *)
C17_RoundTrip ==
    pc = "round trip done" =>
        /\ back = [raised |-> "no", der |-> der_given]
        /\ made = [raised |-> "no", frmt |-> "PEM", der |-> der_given]

----------------------------------------------------------------------------
(* Properties of the revocation check                                      *)

(* A CRL matches the certificate: both carry an authority-key-identifier   *)
(* and these are equal, or otherwise the issuers are equal.                *)
Matches(cert, crl) ==
    \/ /\ cert.authorityKeyID # NoKeyID
       /\ crl.authorityKeyID # NoKeyID
       /\ cert.authorityKeyID = crl.authorityKeyID
    \/ cert.issuer_str = crl.issuer_str

(* The CRL lists the serial of the certificate. *)
Lists(crl, cert) ==
    \E i \in DOMAIN crl.revoked_cert_serials :
        crl.revoked_cert_serials[i][1] = cert.serial

(* Index of the first matching CRL, 0 when none matches. *)
FirstMatch == FirstTrue([k \in DOMAIN crl_list |-> Matches(rcert, crl_list[k])])

(* C2: if any CRL of the list matches the certificate and lists its        *)
(* serial, the result is True, whatever the position of that CRL and       *)
(* whatever other matching CRLs say.                                       *)
C2_AnyListingCRLRevokes ==
    pc = "revoke returned" =>
        ( (\E i \in DOMAIN crl_list :
              Matches(rcert, crl_list[i]) /\ Lists(crl_list[i], rcert))
          => rresult = TRUE )

----------------------------------------------------------------------------
(* Properties of the keys                                                  *)

(* C18: signTBSCert called without a hash override signs the body with     *)
(* the hash the body's declared signature algorithm implies, and the       *)
(* signing key's verifyCert accepts the result, for every declared         *)
(* algorithm.                                                              *)
C18_DeclaredHashSigns ==
    hgiven = "omitted" =>
        /\ pc \in {"signed", "verified"} =>
              signedCert.signatureValue =
                  PrivKey_sign(kobj, ccert.tbsCertificate,
                               hash_by_oid(ccert.tbsCertificate.signature)).sig
        /\ pc = "verified" => verdict = "True"

(* The variant a public key class stands for. *)
Variant(cls) ==
    CASE cls = "PubKeyRSA" -> "RSA"
      [] cls = "PubKeyECDSA" -> "ECDSA"
      [] cls = "PubKeyEdDSA" -> "EdDSA"
      [] OTHER -> "none"

(* C19: every PubKey object, whichever constructor path made it (import,   *)
(* generation, a provider key handle, derivation from a private key), has  *)
(* a variant in {RSA, ECDSA, EdDSA} that is the algorithm of the handle it *)
(* holds.                                                                  *)
C19_VariantMatchesHandle ==
    pc \in {"public key made", "keyed"} =>
        /\ Variant(pobj.cls) \in {"RSA", "ECDSA", "EdDSA"}
        /\ Variant(pobj.cls) = pobj.pubkey.alg

(* C20: between setSubjectPublicKeyFromPrivateKey(k) and resignWith(k) the *)
(* derived public key and signature of c are the old ones; after           *)
(* resignWith(k) the derived fields are those of the new tree: the derived *)
(* public key is k's, k.verifyCert(c) is true, and c.isSelfSigned() is     *)
(* true when issuer equals subject.                                        *)
C20_ResignRederives ==
    /\ pc = "replaced" =>
          /\ ccert.pubKey = ccert0.pubKey
          /\ ccert.signatureValue = ccert0.signatureValue
    /\ pc = "resigned" =>
          /\ ccert = import_from_asn1pkt(BlankCert, ccert.x509Cert).obj
          /\ ccert.pubKey.pubkey = kobj.pubkey.pubkey
          /\ PrivKey_verifyCert(kobj, ccert) = "True"
          /\ ccert.issuer_str = ccert.subject_str =>
                Cert_isSelfSigned(ccert) = "True"

(* C23: verifyChain leaves the chain under test, the anchors and the       *)
(* untrusted list unchanged, and the attempt for every anchor is the       *)
(* construction from that anchor over the complete pool self + untrusted:  *)
(* what earlier anchors consumed or rejected is available again, so equal  *)
(* anchors meet equal outcomes wherever they stand in the sequence.        *)
C23_FreshPoolPerAnchor ==
    [][/\ vself' = vself
       /\ anchors' = anchors
       /\ untrusted' = untrusted
       /\ (pc = "verify" /\ aidx <= Len(anchors)) =>
              /\ Len(tried') = Len(tried) + 1
              /\ SubSeq(tried', 1, Len(tried)) = tried
              /\ tried'[Len(tried')].chain =
                     ChainInit(vself \o untrusted, anchors[aidx]).chain
              /\ \A i \in DOMAIN tried' :
                     anchors[i] = anchors[aidx] =>
                         tried'[i] = tried'[Len(tried')]]_vars

(* Two anchors were tried, and a candidate the first anchor's chain took   *)
(* is in the second anchor's chain again.                                  *)
C23_Witness ==
    /\ Len(tried) >= 2
    /\ Len(tried[1].chain) >= 2
    /\ \E i \in DOMAIN (vself \o untrusted) :
          /\ ListIn((vself \o untrusted)[i], AfterFirst(tried[1].chain))
          /\ ListIn((vself \o untrusted)[i], AfterFirst(tried[2].chain))

=============================================================================
